---- MODULE Spec2Model ----
(***************************************************************************)
(* gesetzessuche: reference parser (utils.parse_law_reference) and query   *)
(* engine (search.LawSearch) over a parsed law document (models.Dokumente).*)
(*                                                                         *)
(* A Python str is a sequence of one-character strings.  None is the       *)
(* one-element sequence None, which no str equals.                         *)
(***************************************************************************)
EXTENDS Integers, Sequences, FiniteSets, TLC

VARIABLES
    documents,   \* LawSearch.documents: the parsed Dokumente (its normen list)
    law_code,    \* LawSearch.law_code
    call,        \* the last query operation and its arguments
    result,      \* what that operation returned
    parts,       \* the pieces the reference string was written from
    reference,   \* the argument of parse_law_reference
    parsed,      \* what parse_law_reference returned
    pc,          \* "start" before the parser has run, then "done"
    root,        \* the XML element handed to GesetzParser, None without one
    _search_cache,  \* server._search_cache: upper-cased code -> LawSearch
    get_law_log, \* the calls of get_law made so far and what each returned
    mapping,     \* law_mapping.json: the entries of the law mapping, in order
    files,       \* the names of the XML files in the data directory
    net_log,     \* the TOC lookups and downloads made so far
    callers      \* the calls of _get_search under way, one per caller

vars ==
    <<documents, law_code, call, result, parts, reference, parsed, pc, root,
      _search_cache, get_law_log, mapping, files, net_log, callers>>

-----------------------------------------------------------------------------
(* Bounds *)

\* widest run of blanks written between two tokens of a reference
MaxSpaces == 2

\* longest Dokumente.normen list
MaxNorms == 2

-----------------------------------------------------------------------------
(* Python str primitives *)

None == <<"<None>">>

NotStarted == <<"<not called>">>

Digit == {"0", "1", "2", "3", "4", "5", "6", "7", "8", "9"}

LowerAlpha ==
    {"a", "b", "c", "d", "e", "f", "g", "h", "i", "j", "k", "l", "m",
     "n", "o", "p", "q", "r", "s", "t", "u", "v", "w", "x", "y", "z"}

LowerOf ==
    [A |-> "a", B |-> "b", C |-> "c", D |-> "d", E |-> "e", F |-> "f",
     G |-> "g", H |-> "h", I |-> "i", J |-> "j", K |-> "k", L |-> "l",
     M |-> "m", N |-> "n", O |-> "o", P |-> "p", Q |-> "q", R |-> "r",
     S |-> "s", T |-> "t", U |-> "u", V |-> "v", W |-> "w", X |-> "x",
     Y |-> "y", Z |-> "z"]

UpperAlpha == DOMAIN LowerOf

\* str.isspace for the characters of the model
Space == {" ", "\n", "\t"}

Min(S) == CHOOSE x \in S : \A y \in S : x <= y

Max(S) == CHOOSE x \in S : \A y \in S : x >= y

\* str.lower, one character
LowerChar(c) == IF c \in UpperAlpha THEN LowerOf[c] ELSE c

\* str.lower
Lower(s) == [i \in 1..Len(s) |-> LowerChar(s[i])]

\* str.replace(c, "")
RemoveChar(s, c) == SelectSeq(s, LAMBDA x : x # c)

\* the positions of s that hold no blank
NonSpace(s) == {i \in 1..Len(s) : s[i] \notin Space}

\* str.strip
Strip(s) ==
    IF NonSpace(s) = {} THEN <<>>
    ELSE SubSeq(s, Min(NonSpace(s)), Max(NonSpace(s)))

\* str.startswith(lit, at position p)
StartsWithAt(s, p, lit) ==
    /\ p + Len(lit) - 1 <= Len(s)
    /\ \A i \in 1..Len(lit) : s[p + i - 1] = lit[i]

\* the positions of s where sub occurs
Occurrences(s, sub) == {p \in 1..(Len(s) + 1) : StartsWithAt(s, p, sub)}

\* str.find: the 0-based offset of the first occurrence, -1 when none
Find(s, sub) ==
    IF Occurrences(s, sub) = {} THEN -1 ELSE Min(Occurrences(s, sub)) - 1

\* sep.join(lines)
RECURSIVE Join(_, _)
Join(lines, sep) ==
    IF Len(lines) = 0 THEN <<>>
    ELSE IF Len(lines) = 1 THEN lines[1]
    ELSE lines[1] \o sep \o Join(Tail(lines), sep)

\* the positions of s that hold the character c
Cuts(s, c) == {i \in 1..Len(s) : s[i] = c}

\* str.split(c): the pieces between the occurrences of the character c
RECURSIVE Split(_, _)
Split(s, c) ==
    IF Cuts(s, c) = {} THEN <<s>>
    ELSE <<SubSeq(s, 1, Min(Cuts(s, c)) - 1)>>
             \o Split(SubSeq(s, Min(Cuts(s, c)) + 1, Len(s)), c)

\* list.insert(i, x), i a 0-based index
ListInsert(l, i, x) ==
    SubSeq(l, 1, Min({i, Len(l)})) \o <<x>>
        \o SubSeq(l, Min({i, Len(l)}) + 1, Len(l))

\* c * n
Repeat(c, n) == [i \in 1..n |-> c]

-----------------------------------------------------------------------------
(* utils.parse_law_reference: re.search(pattern, reference,                *)
(* re.VERBOSE | re.IGNORECASE).  Positions are 1-based; an "end" is the    *)
(* position after the last character matched.                              *)

\* re.IGNORECASE: a literal character matches in either case
MatchLit(s, p, lit) ==
    /\ p + Len(lit) - 1 <= Len(s)
    /\ \A i \in 1..Len(lit) : LowerChar(s[p + i - 1]) = LowerChar(lit[i])

\* [A-Z] and [a-z] under re.IGNORECASE: any ASCII letter
Alpha == LowerAlpha \cup UpperAlpha

\* the end of the greedy run of characters of a class that starts at p
RunEnd(s, p, class) ==
    IF \A i \in p..Len(s) : s[i] \in class THEN Len(s) + 1
    ELSE Min({i \in p..Len(s) : s[i] \notin class})

\* (?:§|Artikel|Art\.?): the ends of the alternatives at p, in the order
\* the regex engine tries them
MarkerEnds(s, p) ==
    (IF MatchLit(s, p, <<"§">>) THEN <<p + 1>> ELSE <<>>)
    \o (IF MatchLit(s, p, <<"A", "r", "t", "i", "k", "e", "l">>)
        THEN <<p + 7>> ELSE <<>>)
    \o (IF MatchLit(s, p, <<"A", "r", "t", ".">>) THEN <<p + 4>> ELSE <<>>)
    \o (IF MatchLit(s, p, <<"A", "r", "t">>) THEN <<p + 3>> ELSE <<>>)

\* a wrong variant of AbsatzWords: the abbreviation is not accepted
AbsatzWordsLongOnly == << <<"A", "b", "s", "a", "t", "z">> >>

\* the keyword alternatives of the optional groups, in regex order
AbsatzWords == << <<"A", "b", "s", "a", "t", "z">>, <<"A", "b", "s", ".">>,
                  <<"A", "b", "s">> >>

NummerWords == << <<"N", "u", "m", "m", "e", "r">>, <<"N", "r", ".">>,
                  <<"N", "r">> >>

\* a wrong variant of BuchstabeWords: the plural is not accepted
BuchstabeWordsSingular ==
    << <<"B", "u", "c", "h", "s", "t", "a", "b", "e">> >>

BuchstabeWords == << <<"B", "u", "c", "h", "s", "t", "a", "b", "e", "n">>,
                     <<"B", "u", "c", "h", "s", "t", "a", "b", "e">> >>

SatzWords == << <<"S", "a", "t", "z">> >>

\* an optional group that takes no part in the match at p
NoGroup(p) == [ok |-> FALSE, val |-> None, end |-> p]

\* the end of the captured value that starts at v: \d+ or, when letter is
\* TRUE, one [a-z]
ValueEnd(s, v, letter) ==
    IF letter
    THEN (IF v <= Len(s) /\ s[v] \in Alpha THEN v + 1 ELSE v)
    ELSE RunEnd(s, v, Digit)

\* \s+ (value) after a keyword that ends before k, v being where the
\* blanks after the keyword end
GroupValue(s, k, v, letter) ==
    IF v > k /\ ValueEnd(s, v, letter) > v
    THEN [ok  |-> TRUE,
          val |-> SubSeq(s, v, ValueEnd(s, v, letter) - 1),
          end |-> ValueEnd(s, v, letter)]
    ELSE NoGroup(k)

\* word \s+ (value) at w
GroupWord(s, w, word, letter) ==
    IF MatchLit(s, w, word)
    THEN GroupValue(s, w + Len(word), RunEnd(s, w + Len(word), Space), letter)
    ELSE NoGroup(w)

\* the alternatives of words, by index, that match at w with a value
MatchingWords(s, w, words, letter) ==
    {i \in 1..Len(words) : GroupWord(s, w, words[i], letter).ok}

\* \s+ (?:word1|word2|..) \s+ (value), w being where the blanks at p end:
\* the first alternative that matches
GroupAt(s, p, w, words, letter) ==
    IF w > p /\ MatchingWords(s, w, words, letter) # {}
    THEN GroupWord(s, w, words[Min(MatchingWords(s, w, words, letter))], letter)
    ELSE NoGroup(p)

\* (?:\s+(?:word1|word2|..)\s+(value))? at p: the captured value and the
\* position the match continues from; the group is skipped when no
\* alternative matches
OptGroup(s, p, words, letter) ==
    GroupAt(s, p, RunEnd(s, p, Space), words, letter)

NoMatch == [matched |-> FALSE]

\* \s*(\d : a digit follows the blanks at e
DigitAfterBlanks(s, e) ==
    RunEnd(s, e, Space) <= Len(s) /\ s[RunEnd(s, e, Space)] \in Digit

\* the marker alternatives, by index, that blanks and a digit follow
MarkersWithDigit(s, ends) ==
    {i \in 1..Len(ends) : DigitAfterBlanks(s, ends[i])}

\* where the paragraph number starts after the first such alternative, or 0
FirstParagraphStart(s, ends) ==
    IF MarkersWithDigit(s, ends) = {} THEN 0
    ELSE RunEnd(s, ends[Min(MarkersWithDigit(s, ends))], Space)

\* (?:§|Artikel|Art\.?)\s*(\d : where the paragraph number starts when a
\* marker alternative at q is followed by blanks and a digit, else 0
ParagraphStart(s, q) == FirstParagraphStart(s, MarkerEnds(s, q))

\* group 6 and the result dictionary
MatchSentence(s, law, paragraph, section, number, ltr) ==
    [matched   |-> TRUE,
     law       |-> law,
     paragraph |-> paragraph,
     section   |-> section,
     number    |-> number,
     letter    |-> ltr.val,
     sentence  |-> OptGroup(s, ltr.end, SatzWords, FALSE).val]

\* group 5, after the Nummer group num
MatchLetter(s, law, paragraph, section, num) ==
    MatchSentence(s, law, paragraph, section, num.val,
                  OptGroup(s, num.end, BuchstabeWords, TRUE))

\* group 4, after the Absatz group sec
MatchNumber(s, law, paragraph, sec) ==
    MatchLetter(s, law, paragraph, sec.val,
                OptGroup(s, sec.end, NummerWords, FALSE))

\* group 3, after the paragraph number s[d..e-1]
MatchSection(s, law, d, e) ==
    MatchNumber(s, law, SubSeq(s, d, e - 1),
                OptGroup(s, e, AbsatzWords, FALSE))

\* [a-z]? at e
LabelEnd(s, e) == IF e <= Len(s) /\ s[e] \in Alpha THEN e + 1 ELSE e

\* group 2, (\d+[a-z]?) at d
MatchLabel(s, law, d) == MatchSection(s, law, d, LabelEnd(s, RunEnd(s, d, Digit)))

\* from the paragraph marker on: marker \s* (\d+[a-z]?) and the four
\* optional groups
MatchFromMarker(s, q, law) ==
    IF ParagraphStart(s, q) = 0 THEN NoMatch
    ELSE MatchLabel(s, law, ParagraphStart(s, q))

\* the law code group ends at a: at least two letters and blanks after them
LawCodeGap(s, p, a) ==
    IF a - p >= 2 /\ RunEnd(s, a, Space) > a THEN RunEnd(s, a, Space) ELSE 0

\* (?:([A-Z][A-Za-z]*[A-Z]|[A-Z]{2,})\s+)? at p: where the marker has to
\* start when the law code group takes part in the match, else 0.  The
\* group is followed by \s+, so it ends where the run of letters ends.
LawCodeEnd(s, p) == LawCodeGap(s, p, RunEnd(s, p, Alpha))

\* the match that starts at p: first with the optional law code group,
\* then without it
MatchAt(s, p) ==
    IF LawCodeEnd(s, p) > 0 /\ ParagraphStart(s, LawCodeEnd(s, p)) > 0
    THEN MatchFromMarker(s, LawCodeEnd(s, p),
                         SubSeq(s, p, RunEnd(s, p, Alpha) - 1))
    ELSE MatchFromMarker(s, p, None)

\* whether the pattern matches at p
MatchesAt(s, p) ==
    \/ ParagraphStart(s, p) > 0
    \/ LawCodeEnd(s, p) > 0 /\ ParagraphStart(s, LawCodeEnd(s, p)) > 0

\* the positions of s where the pattern matches
MatchStarts(s) == {p \in 1..Len(s) : MatchesAt(s, p)}

\* a wrong variant of SearchMatch: the rightmost match
SearchMatchRightmost(s, starts) ==
    IF starts = {} THEN NoMatch ELSE MatchAt(s, Max(starts))

\* re.search: the match at the leftmost position that has one
SearchMatch(s, starts) ==
    IF starts = {} THEN NoMatch ELSE MatchAt(s, Min(starts))

parse_law_reference(s) == SearchMatch(s, MatchStarts(s))

-----------------------------------------------------------------------------
(* The reference strings parse_law_reference is applied to.  A string is   *)
(* written from pieces: a leading word, a paragraph marker, a paragraph    *)
(* label, the optional Absatz, Nummer, Buchstabe and Satz parts and a      *)
(* trailing text, with runs of w blanks between the tokens.                *)

\* the word before the marker: law codes and ordinary words
LeadWords ==
    {None, <<"B", "G", "B">>, <<"K", "S", "t", "G">>,
     <<"s", "i", "e", "h", "e">>}

\* the marker and whether blanks follow it; the empty word is "no marker"
MarkerForms ==
    {[word |-> <<>>, spaced |-> FALSE],
     [word |-> <<"§">>, spaced |-> TRUE],
     [word |-> <<"§">>, spaced |-> FALSE],
     [word |-> <<"A", "r", "t", "i", "k", "e", "l">>, spaced |-> TRUE],
     [word |-> <<"A", "r", "t", ".">>, spaced |-> TRUE]}

\* the empty label is "no paragraph number after the marker"
ParagraphLabels ==
    {<<>>, <<"8", "b">>, <<"5", "2">>, <<"8", "B">>,
     <<"8", "a", "b", "c">>}

\* Buchstabe parts: the keyword and the letter
LetterForms ==
    {[word |-> <<"B", "u", "c", "h", "s", "t", "a", "b", "e">>, val |-> <<"a">>],
     [word |-> <<"B", "u", "c", "h", "s", "t", "a", "b", "e", "n">>, val |-> <<"a">>],
     [word |-> <<"B", "u", "c", "h", "s", "t", "a", "b", "e">>, val |-> <<"A">>]}

NoLetter == [word |-> <<>>, val |-> None]

\* what follows the reference: nothing, a list of further letters, or a
\* second reference
UndB == <<" ", "u", "n", "d", " ", "b">>

BisC == <<" ", "b", "i", "s", " ", "c">>

SecondReference ==
    <<" ", "u", "n", "d", " ", "§", " ", "2", " ",
      "A", "b", "s", "a", "t", "z", " ", "3">>

Trails == {<<>>, UndB, BisC, SecondReference}

\* the keywords written in full, or abbreviated / in lower case
KeywordsOf(style) ==
    IF style = "long"
    THEN [absatz |-> <<"A", "b", "s", "a", "t", "z">>,
          nummer |-> <<"N", "u", "m", "m", "e", "r">>,
          satz   |-> <<"S", "a", "t", "z">>]
    ELSE [absatz |-> <<"A", "b", "s", ".">>,
          nummer |-> <<"N", "r", ".">>,
          satz   |-> <<"s", "a", "t", "z">>]

PartsSet ==
    [lead   : LeadWords,
     marker : MarkerForms,
     para   : ParagraphLabels,
     abs    : {None, <<"2">>},
     nr     : {None, <<"4">>},
     bu     : LetterForms \cup {NoLetter},
     satz   : {None, <<"1">>},
     style  : {"long", "short"},
     trail  : Trails,
     w      : 1..MaxSpaces]

\* the reference written without its trailing text
BuildReference(pt) ==
    LET sp == Repeat(" ", pt.w)
        kw == KeywordsOf(pt.style)
    IN  (IF pt.lead = None THEN <<>> ELSE pt.lead \o sp)
        \o pt.marker.word \o (IF pt.marker.spaced THEN sp ELSE <<>>)
        \o pt.para
        \o (IF pt.abs = None THEN <<>> ELSE sp \o kw.absatz \o sp \o pt.abs)
        \o (IF pt.nr = None THEN <<>> ELSE sp \o kw.nummer \o sp \o pt.nr)
        \o (IF pt.bu = NoLetter THEN <<>>
            ELSE sp \o pt.bu.word \o sp \o pt.bu.val)
        \o (IF pt.satz = None THEN <<>> ELSE sp \o kw.satz \o sp \o pt.satz)

BuildInput(pt) == BuildReference(pt) \o pt.trail

NoParts ==
    [lead |-> None, marker |-> [word |-> <<>>, spaced |-> FALSE],
     para |-> <<>>, abs |-> None, nr |-> None, bu |-> NoLetter,
     satz |-> None, style |-> "long", trail |-> <<>>, w |-> 1]

-----------------------------------------------------------------------------
(* RefSpec: parse_law_reference applied to one reference string *)

RefInit ==
    /\ parts \in PartsSet
    /\ reference = BuildInput(parts)
    /\ parsed = NoMatch
    /\ pc = "start"
    /\ root = None
    /\ _search_cache = <<>>
    /\ get_law_log = <<>>
    /\ mapping = <<>>
    /\ files = {}
    /\ net_log = <<>>
    /\ callers = <<>>
    /\ documents = <<>>
    /\ law_code = <<>>
    /\ call = [op |-> "none"]
    /\ result = NotStarted

ParseLawReference ==
    /\ pc = "start"
    /\ parsed' = parse_law_reference(reference)
    /\ pc' = "done"
    /\ UNCHANGED <<parts, reference, documents, law_code, call, result, root,
                   _search_cache, get_law_log,
                   mapping, files, net_log, callers>>

RefNext == ParseLawReference

RefSpec == RefInit /\ [][RefNext]_vars

-----------------------------------------------------------------------------
(* Claims about parse_law_reference, checked under RefSpec *)

\* the law codes among LeadWords
LawCodes == {<<"B", "G", "B">>, <<"K", "S", "t", "G">>}

\* the labels of ParagraphLabels that are digits and at most one lowercase
\* letter
GrammarLabels == {<<"8", "b">>, <<"5", "2">>}

\* the input is a reference: a marker and a paragraph number after it
HasReference(pt) == pt.marker.word # <<>> /\ pt.para # <<>>

\* the input is written by the grammar, with nothing after it
InGrammar(pt) ==
    /\ pt.lead \in LawCodes \cup {None}
    /\ HasReference(pt)
    /\ pt.para \in GrammarLabels
    /\ pt.bu.val \in {None, <<"a">>}
    /\ pt.trail = <<>>

\* the components the input was written from
Components(pt) ==
    [matched   |-> TRUE,
     law       |-> pt.lead,
     paragraph |-> pt.para,
     section   |-> pt.abs,
     number    |-> pt.nr,
     letter    |-> pt.bu.val,
     sentence  |-> pt.satz]

\* C3: an input written as [law code] marker label [Absatz] [Nummer]
\* [Buchstabe] [Satz] parses to exactly the components it was written from,
\* None for each absent part; an input without a marker followed by a digit
\* parses to no match.
C3_ParsesComponents ==
    pc = "done" =>
        /\ InGrammar(parts) => parsed = Components(parts)
        /\ (~HasReference(parts) /\ parts.trail # SecondReference)
               => parsed = NoMatch

C3_Witness ==
    /\ pc = "done"
    /\ InGrammar(parts)
    /\ parts.lead = <<"K", "S", "t", "G">>
    /\ parts.style = "short"
    /\ parts.w = MaxSpaces
    /\ parsed.matched
    /\ parsed.section = <<"2">>
    /\ parsed.number = <<"4">>
    /\ parsed.letter = <<"a">>
    /\ parsed.sentence = <<"1">>

C3_WitnessNoMatch ==
    /\ pc = "done"
    /\ parts.marker.word # <<>>
    /\ parts.para = <<>>
    /\ parts.abs # None
    /\ parsed = NoMatch

IsUpper(c) == c \in UpperAlpha

\* the shape of a law code: letters only, at least two, the first one
\* uppercase and the last one uppercase (which covers all-uppercase)
IsLawCode(t) ==
    /\ Len(t) >= 2
    /\ \A i \in 1..Len(t) : t[i] \in UpperAlpha \cup LowerAlpha
    /\ IsUpper(t[1])
    /\ IsUpper(t[Len(t)])

\* C4: the law field is set only when the token directly before the marker
\* is a law code; any other word before the marker leaves it None.
C4_LawOnlyFromLawCode ==
    (pc = "done" /\ parsed.matched) =>
        (parsed.law # None => IsLawCode(parsed.law))

\* C5: of several references in the input only the first is returned: the
\* result is that of the input cut before the second reference, and neither
\* the paragraph nor the section of the second reference shows up.
C5_FirstReferenceOnly ==
    (pc = "done" /\ HasReference(parts) /\ parts.trail = SecondReference) =>
        /\ parsed = parse_law_reference(BuildReference(parts))
        /\ parsed.matched
        /\ parsed.paragraph # <<"2">>
        /\ parsed.section # <<"3">>
        /\ parts.para \in GrammarLabels =>
               /\ parsed.paragraph = parts.para
               /\ parsed.section = parts.abs
               /\ parsed.number = parts.nr
               /\ parsed.sentence = parts.satz

C5_Witness ==
    /\ pc = "done"
    /\ parts.lead = None
    /\ parts.marker.word = <<"§">>
    /\ parts.para = <<"5", "2">>
    /\ parts.abs = None
    /\ parts.trail = SecondReference
    /\ parsed.matched
    /\ parsed.paragraph = <<"5", "2">>
    /\ parsed.section = None

IsDigits(t) == Len(t) >= 1 /\ \A i \in 1..Len(t) : t[i] \in Digit

\* digits, then at most one lowercase letter
IsLabel(t) ==
    \/ IsDigits(t)
    \/ /\ Len(t) >= 2
       /\ IsDigits(SubSeq(t, 1, Len(t) - 1))
       /\ t[Len(t)] \in LowerAlpha

\* C6: in every match the paragraph is digits and at most one lowercase
\* letter, the letter is one lowercase letter, and section, number and
\* sentence are digit runs.
C6_FieldShapes ==
    (pc = "done" /\ parsed.matched) =>
        /\ IsLabel(parsed.paragraph)
        /\ parsed.letter # None =>
               (Len(parsed.letter) = 1 /\ parsed.letter[1] \in LowerAlpha)
        /\ parsed.section # None => IsDigits(parsed.section)
        /\ parsed.number # None => IsDigits(parsed.number)
        /\ parsed.sentence # None => IsDigits(parsed.sentence)

Buchstaben == <<"B", "u", "c", "h", "s", "t", "a", "b", "e", "n">>

\* the input ends in "Buchstaben a und b" or "Buchstaben a bis c"
IsLetterList(pt) ==
    /\ HasReference(pt)
    /\ pt.para \in GrammarLabels
    /\ pt.bu.word = Buchstaben
    /\ pt.satz = None
    /\ pt.trail \in {UndB, BisC}

\* C7: after "Buchstaben" and a list of letters the letter field is the
\* first letter, and paragraph, section and number are those of the
\* reference cut after the first letter.
C7_PluralFirstLetter ==
    (pc = "done" /\ IsLetterList(parts)) =>
        /\ parsed.matched
        /\ parsed.letter = parts.bu.val
        /\ parsed.paragraph = parts.para
        /\ parsed.section = parts.abs
        /\ parsed.number = parts.nr
        /\ parsed.sentence = None
        /\ parsed = parse_law_reference(BuildReference(parts))

C7_Witness ==
    /\ pc = "done"
    /\ IsLetterList(parts)
    /\ parts.trail = BisC
    /\ parts.abs # None
    /\ parts.nr # None
    /\ parsed.matched
    /\ parsed.letter = <<"a">>

-----------------------------------------------------------------------------
(* models.py: the parsed document.  An optional model object that is None  *)
(* is the record Absent; a ContentElement is a record with its kind        *)
(* ("str", "P", "IMG", "FormatElement").                                   *)

Absent == [absent |-> TRUE]

Present(x) == x # Absent

\* truth value of an Optional[str]: neither None nor ""
Truthy(s) == s # None /\ s # <<>>

\* a plain text run of a content list
StrElem(t) == [kind |-> "str", text |-> t]

\* models.P as parse_p builds it from a paragraph that holds only text
PElem(t) == [kind |-> "P", content |-> <<StrElem(t)>>, raw_text |-> t]

\* models.IMG: a node without text
ImgElem == [kind |-> "IMG"]

\* models.Metadaten of a paragraph-bearing norm
ParagraphMeta(enbez, titel) ==
    [jurabk |-> <<>>, langue |-> None, enbez |-> enbez, titel |-> titel,
     gliederungseinheit |-> Absent]

\* models.Textdaten around a Content with these elements and raw text
TextOf(elements, raw) ==
    [text |-> [content |-> [elements |-> elements, raw_text |-> raw]]]

T1Ha == <<"(", "1", ")", " ", "H", "a">>

T2b == <<"(", "2", ")", " ", "b">>

T1ha == <<"(", "1", ")", " ", "h", "a">>

T2Ha == <<"(", "2", ")", " ", "H", "a">>

\* "§ 8", title "T", two Absaetze
NormA ==
    [metadaten |-> ParagraphMeta(<<"§", " ", "8">>, <<"T">>),
     textdaten |-> TextOf(<<PElem(T1Ha), PElem(T2b)>>,
                          T1Ha \o <<" ">> \o T2b)]

\* "§ 8b", no title, P nodes mixed with other top-level nodes
NormB ==
    [metadaten |-> ParagraphMeta(<<"§", " ", "8", "b">>, None),
     textdaten |-> TextOf(<<StrElem(<<"x">>), PElem(T1ha), ImgElem,
                            PElem(T2Ha)>>,
                          <<"x", " ">> \o T1ha \o <<" ">> \o T2Ha)]

\* a second norm labelled "§ 8b"
NormC ==
    [metadaten |-> ParagraphMeta(<<"§", " ", "8", "b">>, <<"U">>),
     textdaten |-> TextOf(<<PElem(<<"z">>)>>, <<"z">>)]

\* a structural heading: gliederungseinheit, no enbez, no text
NormD ==
    [metadaten |-> [jurabk |-> <<>>, langue |-> None, enbez |-> None,
                    titel |-> None,
                    gliederungseinheit |->
                        [gliederungsbez |-> <<"B">>,
                         gliederungstitel |-> <<"G">>]],
     textdaten |-> Absent]

\* a norm without metadata
NormE ==
    [metadaten |-> Absent,
     textdaten |-> TextOf(<<PElem(<<"H", "a">>)>>, <<"H", "a">>)]

\* "§ 8a" with an empty title and no text
NormF ==
    [metadaten |-> ParagraphMeta(<<"§", " ", "8", "a">>, <<>>),
     textdaten |-> Absent]

\* a label with a line break in it: <enbez>§\n8</enbez>
NormG ==
    [metadaten |-> ParagraphMeta(<<"§", "\n", "8">>, None),
     textdaten |-> TextOf(<<PElem(<<"H", "a">>)>>, <<"H", "a">>)]

\* "§ 9" whose Content has no children
NormH ==
    [metadaten |-> ParagraphMeta(<<"§", " ", "9">>, <<"T">>),
     textdaten |-> TextOf(<<>>, <<>>)]

NormPool == {NormA, NormB, NormC, NormD, NormE, NormF, NormG, NormH}

\* the normen lists of the model: up to MaxNorms norms
RECURSIVE NormLists(_)
NormLists(n) ==
    IF n = 0 THEN {<<>>}
    ELSE NormLists(n - 1)
         \cup {Append(l, x) : l \in {m \in NormLists(n - 1) : Len(m) = n - 1},
                              x \in NormPool}

\* Dokumente.get_paragraphen
get_paragraphen(normen) ==
    SelectSeq(normen,
              LAMBDA norm : Present(norm.metadaten)
                            /\ Truthy(norm.metadaten.enbez))

\* a wrong variant of get_gliederung: norms with a label are left out
GliederungWithoutLabel(normen) ==
    SelectSeq(normen,
              LAMBDA norm : /\ Present(norm.metadaten)
                            /\ Present(norm.metadaten.gliederungseinheit)
                            /\ ~Truthy(norm.metadaten.enbez))

\* Dokumente.get_gliederung
get_gliederung(normen) ==
    SelectSeq(normen,
              LAMBDA norm : Present(norm.metadaten)
                            /\ Present(norm.metadaten.gliederungseinheit))

\* a wrong variant of get_titel: the titel is preferred to the long title
GetTitelShortFirst(normen) ==
    IF normen # <<>> /\ Present(normen[1].metadaten)
    THEN (IF Truthy(normen[1].metadaten.titel)
          THEN normen[1].metadaten.titel ELSE normen[1].metadaten.langue)
    ELSE None

\* Dokumente.get_titel
get_titel(normen) ==
    IF normen # <<>> /\ Present(normen[1].metadaten)
    THEN (IF Truthy(normen[1].metadaten.langue)
          THEN normen[1].metadaten.langue ELSE normen[1].metadaten.titel)
    ELSE None

\* Dokumente.get_jurabk
get_jurabk(normen) ==
    IF normen # <<>> /\ Present(normen[1].metadaten)
    THEN normen[1].metadaten.jurabk ELSE <<>>

-----------------------------------------------------------------------------
(* utils.py: text extraction *)

\* the elements of a content list that carry a text attribute
HasTextAttr(elem) == elem.kind \in {"FormatElement", "Pre", "Kommentar"}

\* the loop of extract_text_from_p over p.content: the parts collected
RECURSIVE PParts(_)
PParts(content) ==
    IF content = <<>> THEN <<>>
    ELSE (IF \/ Head(content).kind = "str"
             \/ HasTextAttr(Head(content)) /\ Truthy(Head(content).text)
          THEN <<Head(content).text>> ELSE <<>>)
         \o PParts(Tail(content))

extract_text_from_p(p) ==
    IF Truthy(p.raw_text) THEN p.raw_text
    ELSE Strip(Join(PParts(p.content), <<" ">>))

\* the loop of extract_text_from_norm over content.elements: the parts
\* collected (of the element kinds only P has a raw_text)
RECURSIVE NormParts(_)
NormParts(elements) ==
    IF elements = <<>> THEN <<>>
    ELSE (IF Head(elements).kind = "str" THEN <<Head(elements).text>>
          ELSE IF Head(elements).kind = "P"
          THEN <<extract_text_from_p(Head(elements))>>
          ELSE <<>>)
         \o NormParts(Tail(elements))

\* extract_text_from_norm once textdaten and text are known to be set
ContentText(content) ==
    IF ~Present(content) THEN <<>>
    ELSE IF Truthy(content.raw_text) THEN content.raw_text
    ELSE Join(NormParts(content.elements), <<"\n">>)

extract_text_from_norm(norm) ==
    IF ~Present(norm.textdaten) \/ ~Present(norm.textdaten.text) THEN <<>>
    ELSE ContentText(norm.textdaten.text.content)

-----------------------------------------------------------------------------
(* search.py: LawSearch *)

\* '=' * 70
RuleWidth == 70

Rule == Repeat("=", RuleWidth)

\* the list _format_paragraph joins, text being the norm's flattened text
FormatLines(metadaten, lawCode, text) ==
    <<Rule,
      lawCode \o <<" ">>
          \o (IF Truthy(metadaten.enbez) THEN metadaten.enbez ELSE <<"?">>)>>
    \o (IF Truthy(metadaten.titel) THEN <<metadaten.titel>> ELSE <<>>)
    \o <<Rule>>
    \o (IF text # <<>> THEN << <<>>, text >> ELSE <<>>)

_format_paragraph(norm, lawCode) ==
    IF ~Present(norm.metadaten) THEN <<>>
    ELSE Join(FormatLines(norm.metadaten, lawCode,
                          extract_text_from_norm(norm)),
              <<"\n">>)

\* a wrong variant of NormalizeLabel: the blanks are kept
NormalizeLabelUntrimmed(label) == RemoveChar(label, "§")

\* paragraph_num.replace("§", "").strip()
NormalizeLabel(label) == Strip(RemoveChar(label, "§"))

\* the loop of find_paragraph and find_paragraph_section: the first norm
\* whose normalized label equals the normalized query, as a list of zero
\* or one norms
RECURSIVE FirstWithLabel(_, _)
FirstWithLabel(paragraphs, paragraph_num) ==
    IF paragraphs = <<>> THEN <<>>
    ELSE IF /\ Present(Head(paragraphs).metadaten)
            /\ Truthy(Head(paragraphs).metadaten.enbez)
            /\ NormalizeLabel(Head(paragraphs).metadaten.enbez) = paragraph_num
    THEN <<Head(paragraphs)>>
    ELSE FirstWithLabel(Tail(paragraphs), paragraph_num)

\* a wrong variant of FindNorm: a miss falls back to the first paragraph
FindNormOrFirst(normen, paragraph_num) ==
    IF FirstWithLabel(get_paragraphen(normen), NormalizeLabel(paragraph_num))
           = <<>>
    THEN (IF get_paragraphen(normen) = <<>> THEN <<>>
          ELSE <<get_paragraphen(normen)[1]>>)
    ELSE FirstWithLabel(get_paragraphen(normen),
                        NormalizeLabel(paragraph_num))

FindNorm(normen, paragraph_num) ==
    FirstWithLabel(get_paragraphen(normen), NormalizeLabel(paragraph_num))

\* return self._format_paragraph(norm), or None after the loop
FormatFound(found, lawCode) ==
    IF found = <<>> THEN None ELSE _format_paragraph(found[1], lawCode)

find_paragraph(normen, lawCode, paragraph_num) ==
    FormatFound(FindNorm(normen, paragraph_num), lawCode)

ValueError == <<"<ValueError>">>

DigitValue ==
    [c \in Digit |-> CASE c = "0" -> 0 [] c = "1" -> 1 [] c = "2" -> 2
                       [] c = "3" -> 3 [] c = "4" -> 4 [] c = "5" -> 5
                       [] c = "6" -> 6 [] c = "7" -> 7 [] c = "8" -> 8
                       [] c = "9" -> 9]

\* an int() literal without its sign
SignDropped(t) == IF t # <<>> /\ t[1] \in {"+", "-"} THEN Tail(t) ELSE t

\* the digits of an int() literal: blanks around it and one sign dropped
IntDigits(s) == SignDropped(Strip(s))

AllDigits(d) == d # <<>> /\ \A i \in 1..Len(d) : d[i] \in Digit

\* int(s) succeeds
IsIntLiteral(s) == AllDigits(IntDigits(s))

RECURSIVE DigitsValue(_)
DigitsValue(d) ==
    IF d = <<>> THEN 0
    ELSE 10 * DigitsValue(SubSeq(d, 1, Len(d) - 1)) + DigitValue[d[Len(d)]]

\* int(s) for a literal
IntOf(s) ==
    IF Strip(s)[1] = "-" THEN 0 - DigitsValue(IntDigits(s))
    ELSE DigitsValue(IntDigits(s))

\* a wrong variant of SectionHit: the count starts at 0
SectionHitZeroBased(section_count, target_section) ==
    section_count = target_section + 1

\* section_count == target_section, tested after each P node is counted
SectionHit(section_count, target_section) == section_count = target_section

\* the list _find_section_in_norm joins for the P node item
SectionLines(norm, lawCode, section_num, item) ==
    <<Rule,
      lawCode \o <<" ">>
          \o (IF Present(norm.metadaten) THEN norm.metadaten.enbez ELSE <<"?">>)
          \o <<" ", "A", "b", "s", "a", "t", "z", " ">> \o section_num,
      Rule,
      <<>>,
      extract_text_from_p(item)>>

\* the loop of _find_section_in_norm over the rest of
\* text_content.elements, section_count P nodes having been counted
RECURSIVE SectionLoop(_, _, _, _, _, _)
SectionLoop(elements, section_count, target_section, norm, lawCode, section_num) ==
    IF elements = <<>> THEN None
    ELSE IF Head(elements).kind # "P"
    THEN SectionLoop(Tail(elements), section_count, target_section, norm,
                     lawCode, section_num)
    ELSE IF SectionHit(section_count + 1, target_section)
    THEN Join(SectionLines(norm, lawCode, section_num, Head(elements)),
              <<"\n">>)
    ELSE SectionLoop(Tail(elements), section_count + 1, target_section, norm,
                     lawCode, section_num)

\* _find_section_in_norm once textdaten and text are known to be set
SectionOfContent(text_content, norm, lawCode, section_num) ==
    IF ~Present(text_content) \/ text_content.elements = <<>> THEN None
    ELSE IF ~IsIntLiteral(section_num) THEN ValueError
    ELSE SectionLoop(text_content.elements, 0, IntOf(section_num), norm,
                     lawCode, section_num)

_find_section_in_norm(norm, lawCode, section_num) ==
    IF ~Present(norm.textdaten) \/ ~Present(norm.textdaten.text) THEN None
    ELSE SectionOfContent(norm.textdaten.text.content, norm, lawCode,
                          section_num)

\* return self._find_section_in_norm(norm, section_num), or None after the
\* loop
SectionOfFound(found, lawCode, section_num) ==
    IF found = <<>> THEN None
    ELSE _find_section_in_norm(found[1], lawCode, section_num)

find_paragraph_section(normen, lawCode, paragraph_num, section_num) ==
    SectionOfFound(FindNorm(normen, paragraph_num), lawCode, section_num)

\* the number of characters of context kept on each side of a match
ContextWidth == 100

\* a wrong variant of ContextSlice: "..." also where nothing was cut off
ContextSliceEagerMark(text, start, stop) ==
    (IF start >= 0 THEN <<".", ".", ".">> ELSE <<>>)
    \o SubSeq(text, start + 1, stop)
    \o (IF stop <= Len(text) THEN <<".", ".", ".">> ELSE <<>>)

\* text[start:end], "..." where text was cut off
ContextSlice(text, start, stop) ==
    (IF start > 0 THEN <<".", ".", ".">> ELSE <<>>)
    \o SubSeq(text, start + 1, stop)
    \o (IF stop < Len(text) THEN <<".", ".", ".">> ELSE <<>>)

\* the context of the match at offset idx: up to ContextWidth characters
\* on each side
ContextOf(text, idx, term) ==
    ContextSlice(text,
                 Max({0, idx - ContextWidth}),
                 Min({Len(text), idx + Len(term) + ContextWidth}))

\* a wrong variant of SearchNeedle: the term is never lower-cased
SearchNeedleAsTyped(term, case_sensitive) == term

\* search_term = term if case_sensitive else term.lower()
SearchNeedle(term, case_sensitive) ==
    IF case_sensitive THEN term ELSE Lower(term)

\* compare_text = text if case_sensitive else text.lower()
CompareText(text, case_sensitive) ==
    IF case_sensitive THEN text ELSE Lower(text)

\* the record appended for a norm whose text matches at offset idx
SearchRecord(metadaten, text, idx, term) ==
    [paragraph |-> metadaten.enbez,
     title     |-> IF Truthy(metadaten.titel) THEN metadaten.titel ELSE <<>>,
     context   |-> ContextOf(text, idx, term)]

\* one pass of the loop of search_term for a labelled norm with this
\* text: the records appended
SearchNorm(metadaten, text, term, case_sensitive) ==
    IF text = <<>> THEN <<>>
    ELSE IF Find(CompareText(text, case_sensitive),
                 SearchNeedle(term, case_sensitive)) >= 0
    THEN <<SearchRecord(metadaten, text,
                        Find(CompareText(text, case_sensitive),
                             SearchNeedle(term, case_sensitive)),
                        term)>>
    ELSE <<>>

\* the loop of search_term: the results list
RECURSIVE SearchLoop(_, _, _)
SearchLoop(paragraphs, term, case_sensitive) ==
    IF paragraphs = <<>> THEN <<>>
    ELSE (IF \/ ~Present(Head(paragraphs).metadaten)
             \/ ~Truthy(Head(paragraphs).metadaten.enbez)
          THEN <<>>
          ELSE SearchNorm(Head(paragraphs).metadaten,
                          extract_text_from_norm(Head(paragraphs)),
                          term, case_sensitive))
         \o SearchLoop(Tail(paragraphs), term, case_sensitive)

search_term(normen, term, case_sensitive) ==
    SearchLoop(get_paragraphen(normen), term, case_sensitive)

\* the loop of list_all_paragraphs: the result list
RECURSIVE ListLoop(_)
ListLoop(paragraphs) ==
    IF paragraphs = <<>> THEN <<>>
    ELSE (IF /\ Present(Head(paragraphs).metadaten)
             /\ Truthy(Head(paragraphs).metadaten.enbez)
          THEN <<[number |-> Head(paragraphs).metadaten.enbez,
                  title  |-> IF Truthy(Head(paragraphs).metadaten.titel)
                             THEN Head(paragraphs).metadaten.titel
                             ELSE <<>>]>>
          ELSE <<>>)
         \o ListLoop(Tail(paragraphs))

ListAllWithoutHeadings(normen) ==
    ListLoop(SelectSeq(get_paragraphen(normen),
                       LAMBDA norm :
                           ~Present(norm.metadaten.gliederungseinheit)))

list_all_paragraphs(normen) == ListLoop(get_paragraphen(normen))

\* str(n) for a count
RECURSIVE IntStr(_)
IntStr(n) ==
    IF n < 10 THEN <<CHOOSE c \in Digit : DigitValue[c] = n>>
    ELSE IntStr(n \div 10) \o <<CHOOSE c \in Digit : DigitValue[c] = n % 10>>

\* the field width of f"{enbez:15}"
LabelWidth == 15

\* the cut of title[:50]
TitleCut == 50

\* the cut of get_paragraphen()[:5]
FirstParagraphs == 5

\* f"{s:15}": s padded with spaces on the right
Ljust(s, width) ==
    IF Len(s) >= width THEN s ELSE s \o Repeat(" ", width - Len(s))

\* s[:n]
Cut(s, n) == IF Len(s) <= n THEN s ELSE SubSeq(s, 1, n)

\* the loop of show_info over the first paragraphs
RECURSIVE InfoLoop(_)
InfoLoop(paragraphs) ==
    IF paragraphs = <<>> THEN <<>>
    ELSE (IF /\ Present(Head(paragraphs).metadaten)
             /\ Truthy(Head(paragraphs).metadaten.enbez)
          THEN <<<<" ", " ">>
                 \o Ljust(Head(paragraphs).metadaten.enbez, LabelWidth)
                 \o <<" ">>
                 \o (IF Truthy(Head(paragraphs).metadaten.titel)
                     THEN Cut(Head(paragraphs).metadaten.titel, TitleCut)
                     ELSE <<>>)>>
          ELSE <<>>)
         \o InfoLoop(Tail(paragraphs))

\* the lines show_info joins
InfoLines(normen, lawCode) ==
    <<Rule,
      lawCode \o <<":", " ">>
          \o (IF Truthy(get_titel(normen)) THEN get_titel(normen)
              ELSE <<"U", "n", "k", "n", "o", "w", "n">>),
      Rule,
      <<"A", "b", "b", "r", "e", "v", "i", "a", "t", "i", "o", "n", "s", ":",
        " ">> \o Join(get_jurabk(normen), <<",", " ">>),
      <<"T", "o", "t", "a", "l", " ", "n", "o", "r", "m", "s", ":", " ", " ",
        " ">> \o IntStr(Len(normen)),
      <<"P", "a", "r", "a", "g", "r", "a", "p", "h", "s", ":", " ", " ", " ",
        " ">> \o IntStr(Len(get_paragraphen(normen))),
      <<"S", "t", "r", "u", "c", "t", "u", "r", "e", ":", " ", " ", " ", " ",
        " ">> \o IntStr(Len(get_gliederung(normen)))
          \o <<" ", "e", "l", "e", "m", "e", "n", "t", "s">>,
      <<>>,
      <<"F", "i", "r", "s", "t", " ", "5", " ", "p", "a", "r", "a", "g", "r",
        "a", "p", "h", "s", ":">>>>
    \o InfoLoop(Cut(get_paragraphen(normen), FirstParagraphs))

\* LawSearch.show_info
show_info(normen, lawCode) == Join(InfoLines(normen, lawCode), <<"\n">>)

\* "(Gesucht: Nummer n Buchstabe l Satz s)" with the parts that are set
NoteOf(ref) ==
    <<"(", "G", "e", "s", "u", "c", "h", "t", ":", " ">>
    \o Join((IF ref.number # None
             THEN <<<<"N", "u", "m", "m", "e", "r", " ">> \o ref.number>>
             ELSE <<>>)
            \o (IF ref.letter # None
                THEN <<<<"B", "u", "c", "h", "s", "t", "a", "b", "e", " ">>
                           \o ref.letter>>
                ELSE <<>>)
            \o (IF ref.sentence # None
                THEN <<<<"S", "a", "t", "z", " ">> \o ref.sentence>>
                ELSE <<>>),
            <<" ">>)
    \o <<")">>

\* where lines.insert puts the note
NoteIndex == 3

\* if result: the note is inserted; a result of None is returned as it is
WithNote(found, ref) ==
    IF found \in {None, ValueError, <<>>} THEN found
    ELSE Join(ListInsert(Split(found, "\n"), NoteIndex, NoteOf(ref)),
              <<"\n">>)

\* a wrong variant of HasSection: the section is never looked at
HasSectionNever(ref) == FALSE

\* if parsed["section"]
HasSection(ref) == ref.section # None

\* get_by_reference once the reference is parsed
Resolve(normen, lawCode, ref) ==
    IF ~ref.matched THEN None
    ELSE IF ref.number # None \/ ref.letter # None \/ ref.sentence # None
    THEN IF HasSection(ref)
         THEN WithNote(find_paragraph_section(normen, lawCode, ref.paragraph,
                                              ref.section),
                       ref)
         ELSE find_paragraph(normen, lawCode, ref.paragraph)
    ELSE IF HasSection(ref)
    THEN find_paragraph_section(normen, lawCode, ref.paragraph, ref.section)
    ELSE find_paragraph(normen, lawCode, ref.paragraph)

\* a wrong variant of get_by_reference: a law code written in the
\* reference takes the place of the LawSearch's own
GetByReferenceOfNamedLaw(normen, lawCode, ref_string) ==
    Resolve(normen,
            IF parse_law_reference(ref_string).matched
               /\ parse_law_reference(ref_string).law # None
            THEN parse_law_reference(ref_string).law ELSE lawCode,
            parse_law_reference(ref_string))

\* LawSearch.get_by_reference
get_by_reference(normen, lawCode, ref_string) ==
    Resolve(normen, lawCode, parse_law_reference(ref_string))

-----------------------------------------------------------------------------
(* Spec: one LawSearch over a parsed document, queried again and again.    *)
(* A query runs to completion before its caller issues the next one.       *)

\* the arguments the queries are called with
ParagraphQueries ==
    {<<"§", " ", "8", "b">>, <<"8", "b", " ">>, <<"8">>, <<"8", "a">>,
     <<"7">>}

SectionParagraphs == {<<"8">>, <<"§", " ", "8", "b">>, <<"8", "a">>, <<"7">>}

SectionQueries == {<<"0">>, <<"1">>, <<"2">>, <<"3">>, <<"-", "1">>, <<"x">>}

SearchTerms == {<<"h", "a">>, <<"H", "a">>, <<>>, <<"q">>}

Buchstabe == <<"B", "u", "c", "h", "s", "t", "a", "b", "e">>

\* the references get_by_reference is called with, by their pieces
QueryParts ==
    [lead   : {None, <<"K", "S", "t", "G">>, <<"B", "G", "B">>},
     marker : {[word |-> <<"§">>, spaced |-> TRUE]},
     para   : {<<"8">>, <<"8", "b">>},
     abs    : {None, <<"1">>, <<"3">>},
     nr     : {None, <<"4">>},
     bu     : {NoLetter, [word |-> Buchstabe, val |-> <<"a">>]},
     satz   : {None, <<"1">>},
     style  : {"long"},
     trail  : {<<>>},
     w      : {1}]

\* a string that is no reference: "Absatz 1"
NoReferenceParts ==
    [NoParts EXCEPT !.abs = <<"1">>]

Init ==
    /\ documents \in NormLists(MaxNorms)
    /\ law_code = <<"B", "G", "B">>
    /\ call = [op |-> "none"]
    /\ result = NotStarted
    /\ parts = NoParts
    /\ reference = <<>>
    /\ parsed = NoMatch
    /\ pc = "done"
    /\ root = None
    /\ _search_cache = <<>>
    /\ get_law_log = <<>>
    /\ mapping = <<>>
    /\ files = {}
    /\ net_log = <<>>
    /\ callers = <<>>

Idle == call.op = "none"

\* a wrong variant of Frame: a query drops the first norm of the document
FrameDropsNorm ==
    /\ documents' = IF documents = <<>> THEN documents ELSE Tail(documents)
    /\ UNCHANGED <<law_code, parts, reference, parsed, pc, root,
                   _search_cache, get_law_log,
                   mapping, files, net_log, callers>>

\* what no query of LawSearch assigns or mutates
Frame ==
    UNCHANGED <<documents, law_code, parts, reference, parsed, pc, root,
                _search_cache, get_law_log,
                   mapping, files, net_log, callers>>

FindParagraph(q) ==
    /\ Idle
    /\ call' = [op |-> "find_paragraph", paragraph_num |-> q]
    /\ result' = find_paragraph(documents, law_code, q)
    /\ Frame

FindParagraphSection(q, n) ==
    /\ Idle
    /\ call' = [op |-> "find_paragraph_section", paragraph_num |-> q,
                section_num |-> n]
    /\ result' = find_paragraph_section(documents, law_code, q, n)
    /\ Frame

GetByReference(pt) ==
    /\ Idle
    /\ call' = [op |-> "get_by_reference", reference |-> BuildInput(pt),
                pieces |-> pt]
    /\ result' = get_by_reference(documents, law_code, BuildInput(pt))
    /\ Frame

SearchTerm(term, cs) ==
    /\ Idle
    /\ call' = [op |-> "search_term", term |-> term, case_sensitive |-> cs]
    /\ result' = search_term(documents, term, cs)
    /\ Frame

ListAllParagraphs ==
    /\ Idle
    /\ call' = [op |-> "list_all_paragraphs"]
    /\ result' = list_all_paragraphs(documents)
    /\ Frame

ShowInfo ==
    /\ Idle
    /\ call' = [op |-> "show_info"]
    /\ result' = show_info(documents, law_code)
    /\ Frame

\* the caller takes the result; the LawSearch is ready for the next query
Return ==
    /\ ~Idle
    /\ call' = [op |-> "none"]
    /\ result' = NotStarted
    /\ Frame

Next ==
    \/ \E q \in ParagraphQueries : FindParagraph(q)
    \/ \E q \in SectionParagraphs, n \in SectionQueries :
           FindParagraphSection(q, n)
    \/ \E pt \in QueryParts \cup {NoReferenceParts} : GetByReference(pt)
    \/ \E term \in SearchTerms, cs \in BOOLEAN : SearchTerm(term, cs)
    \/ ListAllParagraphs
    \/ ShowInfo
    \/ Return

Spec == Init /\ [][Next]_vars

-----------------------------------------------------------------------------
(* Claims about LawSearch, checked under Spec *)

\* what a label or a query reads as once "§" and the blanks around it are
\* taken away, written out for the labels and queries of the model
KeyTable ==
    {<< <<"§", " ", "8">>, <<"8">> >>,
     << <<"§", "\n", "8">>, <<"8">> >>,
     << <<"8">>, <<"8">> >>,
     << <<"§", " ", "8", "b">>, <<"8", "b">> >>,
     << <<"8", "b", " ">>, <<"8", "b">> >>,
     << <<"8", "b">>, <<"8", "b">> >>,
     << <<"§", " ", "8", "a">>, <<"8", "a">> >>,
     << <<"8", "a">>, <<"8", "a">> >>,
     << <<"§", " ", "9">>, <<"9">> >>,
     << <<"7">>, <<"7">> >>}

KeyOf(label) == (CHOOSE pr \in KeyTable : pr[1] = label)[2]

\* the norms of the document, by position, that carry a non-empty label
\* reading as the query does
Labelled(query) ==
    {i \in 1..Len(documents) :
        /\ Present(documents[i].metadaten)
        /\ Truthy(documents[i].metadaten.enbez)
        /\ KeyOf(documents[i].metadaten.enbez) = KeyOf(query)}

\* C1: find_paragraph returns the formatted text of the first norm in
\* document order, among the norms with a non-empty label, whose label
\* equals the query once "§" and surrounding blanks are removed from both,
\* and None when there is none; "§ 8b" and "8b " give the same result and
\* "8" never returns a norm labelled "8b" or "8a".
C1_FindParagraph ==
    /\ call.op = "find_paragraph" =>
           IF Labelled(call.paragraph_num) = {} THEN result = None
           ELSE result = _format_paragraph(
                             documents[Min(Labelled(call.paragraph_num))],
                             law_code)
    /\ find_paragraph(documents, law_code, <<"§", " ", "8", "b">>)
           = find_paragraph(documents, law_code, <<"8", "b", " ">>)
    /\ (call.op = "find_paragraph" /\ call.paragraph_num = <<"8">>) =>
           \A i \in 1..Len(documents) :
               (/\ Present(documents[i].metadaten)
                /\ documents[i].metadaten.enbez
                       \in {<<"§", " ", "8", "b">>, <<"§", " ", "8", "a">>})
               => result # _format_paragraph(documents[i], law_code)

C1_Witness ==
    /\ call.op = "find_paragraph"
    /\ call.paragraph_num = <<"8", "b", " ">>
    /\ documents = <<NormC, NormB>>
    /\ result = _format_paragraph(NormC, law_code)
    /\ result # _format_paragraph(NormB, law_code)

\* the sections that are numbers, and their values
SectionValues ==
    {<< <<"0">>, 0 >>, << <<"1">>, 1 >>, << <<"2">>, 2 >>, << <<"3">>, 3 >>,
     << <<"-", "1">>, 0 - 1 >>}

IsNumericSection(n) == \E pr \in SectionValues : pr[1] = n

SectionValue(n) == (CHOOSE pr \in SectionValues : pr[1] = n)[2]

\* the top-level content list of a norm's text body
TopLevel(norm) ==
    IF /\ Present(norm.textdaten)
       /\ Present(norm.textdaten.text)
       /\ Present(norm.textdaten.text.content)
    THEN norm.textdaten.text.content.elements
    ELSE <<>>

\* the text find_paragraph_section returns for the P node p of a norm
SectionText(norm, section_num, p) ==
    Rule \o <<"\n">>
    \o law_code \o <<" ">> \o norm.metadaten.enbez
    \o <<" ", "A", "b", "s", "a", "t", "z", " ">> \o section_num \o <<"\n">>
    \o Rule \o <<"\n">>
    \o <<"\n">>
    \o p.raw_text

\* C2: find_paragraph_section resolves the paragraph as find_paragraph
\* does and returns the formatted text of the n-th top-level P node,
\* counting from 1 and counting P nodes only; None when there are fewer
\* than n.
C2_NthParagraphNode ==
    (call.op = "find_paragraph_section" /\ IsNumericSection(call.section_num))
    => IF Labelled(call.paragraph_num) = {} THEN result = None
       ELSE LET norm == documents[Min(Labelled(call.paragraph_num))]
                els  == TopLevel(norm)
                ps   == {j \in 1..Len(els) : els[j].kind = "P"}
                n    == SectionValue(call.section_num)
            IN  IF n >= 1 /\ n <= Cardinality(ps)
                THEN \E j \in ps :
                         /\ Cardinality({k \in ps : k <= j}) = n
                         /\ result = SectionText(norm, call.section_num, els[j])
                ELSE result = None

C2_Witness ==
    /\ call.op = "find_paragraph_section"
    /\ call.section_num = <<"2">>
    /\ documents = <<NormB, NormA>>
    /\ call.paragraph_num = <<"§", " ", "8", "b">>
    /\ result = SectionText(NormB, <<"2">>, PElem(T2Ha))

C2_WitnessShort ==
    /\ call.op = "find_paragraph_section"
    /\ call.section_num = <<"3">>
    /\ call.paragraph_num = <<"8">>
    /\ documents = <<NormA>>
    /\ result = None

\* the reference asks for a Nummer, a Buchstabe or a Satz
IsComplex(pt) == pt.nr # None \/ pt.bu # NoLetter \/ pt.satz # None

\* the text with the note as a line of its own directly after the second
\* rule line
AfterSecondRule(text, note) ==
    LET lines == Split(text, "\n")
        rules == {i \in 1..Len(lines) : lines[i] = Rule}
        second == CHOOSE i \in rules : Cardinality({k \in rules : k <= i}) = 2
    IN  Join(ListInsert(lines, second, note), <<"\n">>)

\* C8: for a reference with a Nummer, Buchstabe or Satz and a section,
\* get_by_reference returns the text of find_paragraph_section with the
\* line "(Gesucht: ...)" directly after the second rule line of the header,
\* and None when the section lookup finds nothing.
C8_NoteAfterHeader ==
    (/\ call.op = "get_by_reference"
     /\ HasReference(call.pieces)
     /\ IsComplex(call.pieces)
     /\ call.pieces.abs # None)
    => LET base == find_paragraph_section(documents, law_code,
                                          call.pieces.para, call.pieces.abs)
       IN  IF base = None THEN result = None
           ELSE result = AfterSecondRule(base, NoteOf(Components(call.pieces)))

\* C9: get_by_reference returns None for a string that is no reference,
\* the result of find_paragraph_section for a reference with a section and
\* no Nummer, Buchstabe or Satz, and the result of find_paragraph for every
\* reference without a section.
C9_Dispatch ==
    call.op = "get_by_reference" =>
        /\ ~HasReference(call.pieces) => result = None
        /\ (/\ HasReference(call.pieces)
            /\ call.pieces.abs # None
            /\ ~IsComplex(call.pieces))
           => result = find_paragraph_section(documents, law_code,
                                              call.pieces.para, call.pieces.abs)
        /\ (HasReference(call.pieces) /\ call.pieces.abs = None)
           => result = find_paragraph(documents, law_code, call.pieces.para)

C9_Witness ==
    /\ call.op = "get_by_reference"
    /\ call.pieces.abs = None
    /\ call.pieces.nr # None
    /\ call.pieces.satz # None
    /\ call.pieces.para = <<"8">>
    /\ documents = <<NormA>>
    /\ result = _format_paragraph(NormA, law_code)

C9_WitnessSection ==
    /\ call.op = "get_by_reference"
    /\ call.pieces.abs = <<"1">>
    /\ ~IsComplex(call.pieces)
    /\ call.pieces.para = <<"8", "b">>
    /\ documents = <<NormB>>
    /\ result = SectionText(NormB, <<"1">>, PElem(T1ha))

\* text contains sub
Contains(text, sub) ==
    \E p \in 0..(Len(text) - Len(sub)) :
        \A i \in 1..Len(sub) : text[p + i] = sub[i]

\* the text and the term as search_term compares them
Folded(t) == IF call.case_sensitive THEN t ELSE Lower(t)

\* the result holds one record for each norm of idx, in document order,
\* with the norm's label and its title ('' when absent)
RecordsFor(idx) ==
    /\ Len(result) = Cardinality(idx)
    /\ \A i \in idx :
           LET k == Cardinality({j \in idx : j <= i})
           IN  /\ result[k].paragraph = documents[i].metadaten.enbez
               /\ result[k].title =
                      IF Truthy(documents[i].metadaten.titel)
                      THEN documents[i].metadaten.titel ELSE <<>>

\* the norms with a non-empty label whose text contains the term
Containing ==
    {i \in 1..Len(documents) :
        /\ Present(documents[i].metadaten)
        /\ Truthy(documents[i].metadaten.enbez)
        /\ Contains(Folded(extract_text_from_norm(documents[i])),
                    Folded(call.term))}

\* C10 as stated: search_term returns exactly one record for each norm with
\* a non-empty label whose flattened text contains the term, in document
\* order, with no cap.
C10_OneRecordPerMatch ==
    call.op = "search_term" => RecordsFor(Containing)

\* C10 as amended: search_term returns exactly one record for each norm
\* with a non-empty label and a non-empty flattened text that contains the
\* term, in document order, with no cap.
C10_OneRecordPerNonEmptyMatch ==
    call.op = "search_term" =>
        RecordsFor({i \in Containing :
                       extract_text_from_norm(documents[i]) # <<>>})

C10_Witness ==
    /\ call.op = "search_term"
    /\ call.term = <<"h", "a">>
    /\ ~call.case_sensitive
    /\ documents = <<NormA, NormG>>
    /\ Len(result) = 2
    /\ result[1].paragraph = <<"§", " ", "8">>
    /\ result[1].title = <<"T">>
    /\ result[2].title = <<>>

-----------------------------------------------------------------------------
(* CtxSpec: search_term over one norm whose text is long enough for the    *)
(* context window to cut it.  The text is a run of "x", a word, a run of   *)
(* "y" and, in some documents, a second occurrence of the word.            *)

\* longest run of characters written before or after the word
MaxPad == 102

PadLengths == {0, 1} \cup ((ContextWidth - 1)..MaxPad)

PadWords == {<<"H", "a">>, <<"h", "a">>}

PadTails == {<<>>, <<"H", "a">>}

\* the text of a padded norm
PaddedText(before, word, after, tail) ==
    Repeat("x", before) \o word \o Repeat("y", after) \o tail

\* "§ 8", title "T", one P that holds the text
PaddedNorm(text) ==
    [metadaten |-> ParagraphMeta(<<"§", " ", "8">>, <<"T">>),
     textdaten |-> TextOf(<<PElem(text)>>, text)]

PaddedDocuments ==
    {<<PaddedNorm(PaddedText(a, w, b, tl))>> :
        a \in PadLengths, w \in PadWords, b \in PadLengths, tl \in PadTails}

CtxTerms == {<<"H", "a">>, <<"h", "a">>, <<"y", "H">>, <<"q">>}

CtxInit ==
    /\ documents \in PaddedDocuments
    /\ law_code = <<"B", "G", "B">>
    /\ call = [op |-> "none"]
    /\ result = NotStarted
    /\ parts = NoParts
    /\ reference = <<>>
    /\ parsed = NoMatch
    /\ pc = "done"
    /\ root = None
    /\ _search_cache = <<>>
    /\ get_law_log = <<>>
    /\ mapping = <<>>
    /\ files = {}
    /\ net_log = <<>>
    /\ callers = <<>>

CtxNext ==
    \/ \E term \in CtxTerms, cs \in BOOLEAN : SearchTerm(term, cs)
    \/ Return

CtxSpec == CtxInit /\ [][CtxNext]_vars

-----------------------------------------------------------------------------
(* Claims about the context window, checked under CtxSpec *)

\* the text of the only norm of a padded document
OnlyText == documents[1].textdaten.text.content.raw_text

\* the 0-based offsets at which sub occurs in text
OffsetsOf(text, sub) ==
    {p \in 0..(Len(text) - Len(sub)) :
        \A i \in 1..Len(sub) : text[p + i] = sub[i]}

\* the first match offset of the term in the text, as search_term compares
\* them
FirstOffset == Min(OffsetsOf(Folded(OnlyText), Folded(call.term)))

Ellipsis == <<".", ".", ".">>

\* the number of characters of the text after the matched term
AfterMatch == Len(OnlyText) - FirstOffset - Len(call.term)

\* C11: the context of a search result holds min(idx, 100) characters of
\* the text before the first match and min(L - idx - t, 100) after the
\* matched term; "..." is in front iff idx > 100 and at the end iff
\* idx + t + 100 < L.
C11_ContextWindow ==
    (call.op = "search_term" /\ Len(result) > 0) =>
        /\ Len(result) = 1
        /\ result[1].context =
               (IF FirstOffset > 100 THEN Ellipsis ELSE <<>>)
               \o SubSeq(OnlyText,
                         FirstOffset - Min({FirstOffset, 100}) + 1,
                         FirstOffset + Len(call.term)
                             + Min({AfterMatch, 100}))
               \o (IF FirstOffset + Len(call.term) + 100 < Len(OnlyText)
                   THEN Ellipsis ELSE <<>>)

\* cut on both sides: 101 characters before the match, 102 after it
C11_Witness ==
    /\ call.op = "search_term"
    /\ call.term = <<"h", "a">>
    /\ ~call.case_sensitive
    /\ documents = <<PaddedNorm(PaddedText(101, <<"H", "a">>, 100, <<"H", "a">>))>>
    /\ Len(result) = 1
    /\ Len(result[1].context) = 3 + 100 + 2 + 100 + 3
    /\ SubSeq(result[1].context, 1, 4) = <<".", ".", ".", "x">>
    /\ SubSeq(result[1].context, 104, 105) = <<"H", "a">>

\* cut on neither side: exactly 100 characters before and after the match
C11_WitnessUncut ==
    /\ call.op = "search_term"
    /\ call.term = <<"H", "a">>
    /\ call.case_sensitive
    /\ documents = <<PaddedNorm(PaddedText(100, <<"H", "a">>, 100, <<>>))>>
    /\ Len(result) = 1
    /\ result[1].context = OnlyText

-----------------------------------------------------------------------------
(* parser.py: GesetzParser over xml.etree.ElementTree elements.            *)
(* An Element is a record of its tag, its attributes (a function from      *)
(* attribute names), its text and tail (None when there is none) and the   *)
(* sequence of its children.                                               *)

Element(tag, attrib, text, children, tail) ==
    [tag |-> tag, attrib |-> attrib, text |-> text, children |-> children,
     tail |-> tail]

\* an element without attributes
NoAttrib == <<>>

\* Element.get(name)
Get(elem, name) ==
    IF name \in DOMAIN elem.attrib THEN elem.attrib[name] ELSE None

\* Element.findall(tag): the direct children with that tag, in order
FindAll(elem, tag) == SelectSeq(elem.children, LAMBDA c : c.tag = tag)

\* Element.find(tag) of an element, and of a missing one (None)
FindChild(elem, tag) ==
    IF ~Present(elem) \/ FindAll(elem, tag) = <<>> THEN Absent
    ELSE FindAll(elem, tag)[1]

\* str.split(): the runs of non-blank characters
NextBlank(s, p) == Min({i \in p..Len(s) : s[i] \in Space} \cup {Len(s) + 1})

RECURSIVE SplitWords(_)
SplitWords(s) ==
    IF NonSpace(s) = {} THEN <<>>
    ELSE <<SubSeq(s, Min(NonSpace(s)), NextBlank(s, Min(NonSpace(s))) - 1)>>
         \o SplitWords(SubSeq(s, NextBlank(s, Min(NonSpace(s))), Len(s)))

\* the while loop of _normalize_whitespace: runs of spaces become one space
RECURSIVE CollapseSpaces(_)
CollapseSpaces(t) ==
    IF Len(t) < 2 THEN t
    ELSE IF t[1] = " " /\ t[2] = " " THEN CollapseSpaces(Tail(t))
    ELSE <<t[1]>> \o CollapseSpaces(Tail(t))

\* a wrong variant of _normalize_whitespace: runs of blanks are kept
NormalizeWithoutCollapse(text) ==
    [i \in 1..Len(text) |-> IF text[i] \in Space THEN " " ELSE text[i]]

\* GesetzParser._normalize_whitespace
_normalize_whitespace(text) ==
    CollapseSpaces([i \in 1..Len(text) |->
                       IF text[i] \in Space THEN " " ELSE text[i]])

\* the text of a found child, stripped, or None
ChildText(child) ==
    IF Present(child) /\ Truthy(child.text) THEN Strip(child.text) ELSE None

\* GesetzParser._get_text
_get_text(elem, tag) == ChildText(FindChild(elem, tag))

\* the comprehension of _get_all_text over the children found
RECURSIVE AllText(_)
AllText(children) ==
    IF children = <<>> THEN <<>>
    ELSE (IF Truthy(Head(children).text) /\ Strip(Head(children).text) # <<>>
          THEN <<Strip(Head(children).text)>> ELSE <<>>)
         \o AllText(Tail(children))

\* GesetzParser._get_all_text
_get_all_text(elem, tag) == AllText(FindAll(elem, tag))

\* the reference-marker superscript: SUP with class (or Class) "Rec"
Rec == <<"R", "e", "c">>

\* a wrong variant of IsRec: only the attribute named class is read
IsRecLowerOnly(child) == child.tag = "SUP" /\ Get(child, "class") = Rec

IsRec(child) ==
    /\ child.tag = "SUP"
    /\ (Get(child, "class") = Rec \/ Get(child, "Class") = Rec)

\* the text parts _extract_raw_text collects, declared before its loop
RECURSIVE _extract_raw_text(_)

\* what one child adds to text_parts: nothing of a Rec marker but its tail
RawChildParts(child) ==
    (IF IsRec(child) THEN <<>> ELSE <<_extract_raw_text(child)>>)
    \o (IF Truthy(child.tail) THEN <<child.tail>> ELSE <<>>)

RECURSIVE RawLoop(_)
RawLoop(children) ==
    IF children = <<>> THEN <<>>
    ELSE RawChildParts(Head(children)) \o RawLoop(Tail(children))

\* GesetzParser._extract_raw_text: parts joined, blanks collapsed, stripped
_extract_raw_text(elem) ==
    Join(SplitWords(Join((IF Truthy(elem.text) THEN <<elem.text>> ELSE <<>>)
                         \o RawLoop(elem.children), <<" ">>)),
         <<" ">>)

\* the tags parse_content_elements hands to parse_format_element
FormatTags == {"B", "I", "U", "SUP", "SUB", "SP", "small", "Citation"}

RECURSIVE parse_content_elements(_)

\* GesetzParser.parse_p
parse_p(elem) ==
    [kind |-> "P", content |-> parse_content_elements(elem),
     raw_text |-> _extract_raw_text(elem)]

\* GesetzParser.parse_format_element
parse_format_element(elem) ==
    [kind |-> "FormatElement", tag |-> elem.tag, text |-> elem.text,
     children |-> parse_content_elements(elem)]

\* GesetzParser.parse_dt
parse_dt(elem) == [id |-> Get(elem, "ID"), text |-> _extract_raw_text(elem)]

\* GesetzParser.parse_la
parse_la(elem) ==
    [text |-> IF elem.children = <<>> THEN _extract_raw_text(elem) ELSE None,
     children |-> IF elem.children # <<>> THEN parse_content_elements(elem)
                  ELSE <<>>]

\* GesetzParser.parse_dd
parse_dd(elem) ==
    [id |-> Get(elem, "ID"),
     la |-> IF Present(FindChild(elem, "LA"))
            THEN parse_la(FindChild(elem, "LA")) ELSE Absent]

\* the loop of parse_dl over the children, current_dt the pending term
RECURSIVE DlLoop(_, _)
DlLoop(children, current_dt) ==
    IF children = <<>> THEN <<>>
    ELSE IF Head(children).tag = "DT"
    THEN DlLoop(Tail(children), parse_dt(Head(children)))
    ELSE IF Head(children).tag = "DD" /\ Present(current_dt)
    THEN <<[dt |-> current_dt, dd |-> parse_dd(Head(children))]>>
         \o DlLoop(Tail(children), Absent)
    ELSE DlLoop(Tail(children), current_dt)

\* GesetzParser.parse_dl
parse_dl(elem) == [kind |-> "DL", items |-> DlLoop(elem.children, Absent)]

\* a text that is appended only when it is not empty
TextNode(text) == IF text # <<>> THEN <<StrElem(text)>> ELSE <<>>

\* a wrong variant of ChildNode: a BR child contributes nothing
ChildNodeNoBreak(child) ==
    IF IsRec(child) \/ child.tag = "BR" THEN <<>>
    ELSE IF child.tag = "P" THEN <<parse_p(child)>>
    ELSE IF child.tag \in FormatTags THEN <<parse_format_element(child)>>
    ELSE TextNode(_extract_raw_text(child))

\* the branch of parse_content_elements taken for the tag of a child
\* (of the node kinds, those without text of their own stand as IMG)
ChildNode(child) ==
    IF IsRec(child) THEN <<>>
    ELSE IF child.tag = "P" THEN <<parse_p(child)>>
    ELSE IF child.tag = "DL" THEN <<parse_dl(child)>>
    ELSE IF child.tag = "IMG" THEN <<ImgElem>>
    ELSE IF child.tag \in FormatTags THEN <<parse_format_element(child)>>
    ELSE IF child.tag = "BR" THEN <<StrElem(<<"\n">>)>>
    ELSE TextNode(_extract_raw_text(child))

\* the tail rule: a normalized tail is appended unless it is one space
TailNode(tail) ==
    IF tail # <<>> /\ tail # <<" ">> THEN <<StrElem(tail)>> ELSE <<>>

ChildTail(child) ==
    IF Truthy(child.tail) THEN TailNode(_normalize_whitespace(child.tail))
    ELSE <<>>

RECURSIVE ContentLoop(_)
ContentLoop(children) ==
    IF children = <<>> THEN <<>>
    ELSE ChildNode(Head(children)) \o ChildTail(Head(children))
         \o ContentLoop(Tail(children))

\* GesetzParser.parse_content_elements
parse_content_elements(elem) ==
    (IF Truthy(elem.text)
     THEN TextNode(Strip(_normalize_whitespace(elem.text))) ELSE <<>>)
    \o ContentLoop(elem.children)

\* GesetzParser.parse_content
parse_content(elem) ==
    IF ~Present(elem) THEN Absent
    ELSE [elements |-> parse_content_elements(elem),
          raw_text |-> _extract_raw_text(elem)]

\* GesetzParser.parse_text
parse_text(elem) ==
    IF ~Present(elem) THEN Absent
    ELSE [content |-> parse_content(FindChild(elem, "Content"))]

\* GesetzParser.parse_textdaten
parse_textdaten(elem) ==
    IF ~Present(elem) THEN Absent
    ELSE [text |-> parse_text(FindChild(elem, "text"))]

\* GesetzParser.parse_gliederungseinheit
parse_gliederungseinheit(elem) ==
    IF ~Present(elem) THEN Absent
    ELSE [gliederungskennzahl |-> _get_text(elem, "gliederungskennzahl"),
          gliederungsbez |-> _get_text(elem, "gliederungsbez"),
          gliederungstitel |-> _get_text(elem, "gliederungstitel")]

\* GesetzParser.parse_metadaten (the fields the queries read)
parse_metadaten(elem) ==
    IF ~Present(elem) THEN Absent
    ELSE [jurabk |-> _get_all_text(elem, "jurabk"),
          langue |-> _get_text(elem, "langue"),
          enbez |-> _get_text(elem, "enbez"),
          titel |-> _get_text(elem, "titel"),
          gliederungseinheit |->
              parse_gliederungseinheit(FindChild(elem, "gliederungseinheit"))]

\* GesetzParser.parse_norm
parse_norm(elem) ==
    [metadaten |-> parse_metadaten(FindChild(elem, "metadaten")),
     textdaten |-> parse_textdaten(FindChild(elem, "textdaten"))]

\* the comprehension of parse_dokumente over root.findall("./norm")
RECURSIVE ParseNorms(_)
ParseNorms(elems) ==
    IF elems = <<>> THEN <<>>
    ELSE <<parse_norm(Head(elems))>> \o ParseNorms(Tail(elems))

\* GesetzParser.parse_dokumente: the normen of the Dokumente
parse_dokumente(rootElem) == ParseNorms(FindAll(rootElem, "norm"))

-----------------------------------------------------------------------------
(* DocSpec: parse_dokumente applied to a <dokumente> element, then the     *)
(* accessors of the Dokumente and the paragraph listing                    *)

\* a leaf element: text, no attributes, no children, no tail
Leaf(tag, text) == Element(tag, NoAttrib, text, <<>>, None)

\* an element that only holds children
Node(tag, children) == Element(tag, NoAttrib, None, children, None)

XmlBGB == Leaf("jurabk", <<"B", "G", "B">>)

XmlHa == Node("textdaten", <<Node("text", <<Node("Content",
             <<Leaf("P", <<"(", "1", ")", " ", "H", "a">>)>>)>>)>>)

XmlHeadingB ==
    Node("gliederungseinheit",
         <<Leaf("gliederungskennzahl", <<"0", "1", "0">>),
           Leaf("gliederungsbez", <<"B">>),
           Leaf("gliederungstitel", <<"G">>)>>)

\* the header norm of a law: abbreviations (one blank) and the long title
XmlHeader ==
    Node("norm", <<Node("metadaten",
        <<XmlBGB, Leaf("jurabk", <<" ">>), Leaf("jurabk", <<" ", "X", "\n">>),
          Leaf("langue", <<"L", " ">>), Leaf("titel", <<"K">>)>>)>>)

\* a header norm whose long title is blank: the title stands in
XmlHeaderShort ==
    Node("norm", <<Node("metadaten",
        <<Leaf("jurabk", <<"Y">>), Leaf("langue", <<" ">>),
          Leaf("titel", <<"K">>)>>)>>)

\* a paragraph: "§ 8", title "T", one Absatz
XmlParagraph ==
    Node("norm", <<Node("metadaten",
        <<XmlBGB, Leaf("enbez", <<"§", " ", "8">>), Leaf("titel", <<"T">>)>>),
        XmlHa>>)

\* a structural heading
XmlHeading == Node("norm", <<Node("metadaten", <<XmlBGB, XmlHeadingB>>)>>)

\* a norm whose metadata hold a heading and a paragraph label
XmlBoth ==
    Node("norm", <<Node("metadaten",
        <<XmlBGB, XmlHeadingB, Leaf("enbez", <<"§", " ", "9">>),
          Leaf("titel", <<"U">>)>>),
        XmlHa>>)

\* a norm without a <metadaten> element
XmlNoMeta == Node("norm", <<XmlHa>>)

\* a heading element without children
XmlEmptyHeading ==
    Node("norm", <<Node("metadaten",
        <<XmlBGB, Node("gliederungseinheit", <<>>)>>)>>)

\* a paragraph label that is blank
XmlBlankLabel ==
    Node("norm", <<Node("metadaten",
        <<XmlBGB, Leaf("enbez", <<" ">>), Leaf("titel", <<"V">>)>>)>>)

XmlNormPool ==
    {XmlHeader, XmlHeaderShort, XmlParagraph, XmlHeading, XmlBoth, XmlNoMeta,
     XmlEmptyHeading, XmlBlankLabel}

\* the children lists of the model: up to MaxNorms norm elements
RECURSIVE XmlNormLists(_)
XmlNormLists(n) ==
    IF n = 0 THEN {<<>>}
    ELSE XmlNormLists(n - 1)
         \cup {Append(l, x) :
                  l \in {m \in XmlNormLists(n - 1) : Len(m) = n - 1},
                  x \in XmlNormPool}

\* the <dokumente> elements of the model
XmlRoots == {Node("dokumente", l) : l \in XmlNormLists(MaxNorms)}

DocInit ==
    /\ root \in XmlRoots
    /\ documents = <<>>
    /\ law_code = <<"B", "G", "B">>
    /\ call = [op |-> "none"]
    /\ result = NotStarted
    /\ parts = NoParts
    /\ reference = <<>>
    /\ parsed = NoMatch
    /\ pc = "start"
    /\ _search_cache = <<>>
    /\ get_law_log = <<>>
    /\ mapping = <<>>
    /\ files = {}
    /\ net_log = <<>>
    /\ callers = <<>>

\* LawSearch.__init__ through get_law: the XML is parsed once
ParseDokumente ==
    /\ pc = "start"
    /\ documents' = parse_dokumente(root)
    /\ pc' = "done"
    /\ UNCHANGED <<law_code, call, result, parts, reference, parsed, root,
                   _search_cache, get_law_log,
                   mapping, files, net_log, callers>>

Loaded == pc = "done"

GetParagraphen ==
    /\ Idle
    /\ call' = [op |-> "get_paragraphen"]
    /\ result' = get_paragraphen(documents)
    /\ Frame

GetGliederung ==
    /\ Idle
    /\ call' = [op |-> "get_gliederung"]
    /\ result' = get_gliederung(documents)
    /\ Frame

GetTitel ==
    /\ Idle
    /\ call' = [op |-> "get_titel"]
    /\ result' = get_titel(documents)
    /\ Frame

GetJurabk ==
    /\ Idle
    /\ call' = [op |-> "get_jurabk"]
    /\ result' = get_jurabk(documents)
    /\ Frame

DocNext ==
    \/ ParseDokumente
    \/ Loaded /\ ListAllParagraphs
    \/ Loaded /\ GetParagraphen
    \/ Loaded /\ GetGliederung
    \/ Loaded /\ GetTitel
    \/ Loaded /\ GetJurabk
    \/ Loaded /\ Return

DocSpec == DocInit /\ [][DocNext]_vars

-----------------------------------------------------------------------------
(* Claims about parsed documents, checked under DocSpec *)

\* the positions of the norms that bear a paragraph: metadata with a label
Bearing ==
    {i \in 1..Len(documents) :
        /\ Present(documents[i].metadaten)
        /\ Truthy(documents[i].metadaten.enbez)}

\* the positions of the norms that carry a structural heading
Heading ==
    {i \in 1..Len(documents) :
        /\ Present(documents[i].metadaten)
        /\ Present(documents[i].metadaten.gliederungseinheit)}

\* the k-th smallest position of a set of positions
NthOf(S, k) == CHOOSE i \in S : Cardinality({j \in S : j < i}) = k - 1

\* the (number, title) entry of the norm at position i
EntryOf(i) ==
    [number |-> documents[i].metadaten.enbez,
     title  |-> IF documents[i].metadaten.titel \in {None, <<>>} THEN <<>>
                ELSE documents[i].metadaten.titel]

\* one entry per paragraph-bearing norm, in document order, nothing else
ListsBearingInOrder ==
    /\ Len(result) = Cardinality(Bearing)
    /\ \A k \in 1..Len(result) : result[k] = EntryOf(NthOf(Bearing, k))

-----------------------------------------------------------------------------
(* Claims about misses and failures of the queries, checked under Spec *)

\* the number of top-level P nodes of the norm the label resolves to
ParagraphNodes(query) ==
    Cardinality({j \in 1..Len(TopLevel(documents[Min(Labelled(query))])) :
                    TopLevel(documents[Min(Labelled(query))])[j].kind = "P"})

\* the term occurs in the text of no norm of the document
OccursNowhere(term) ==
    \A i \in 1..Len(documents) :
        ~Contains(Folded(extract_text_from_norm(documents[i])), Folded(term))

\* C13: every lookup miss is an absence, not a failure: find_paragraph with
\* a label that matches no norm returns None; find_paragraph_section with
\* an unknown label, or with a numeric section that is 0, negative or
\* greater than the number of top-level P nodes, returns None; search_term
\* with a term that occurs in no norm returns the empty list.
C13_MissIsAbsence ==
    /\ (call.op = "find_paragraph" /\ Labelled(call.paragraph_num) = {})
           => result = None
    /\ (/\ call.op = "find_paragraph_section"
        /\ Labelled(call.paragraph_num) = {})
           => result = None
    /\ (/\ call.op = "find_paragraph_section"
        /\ Labelled(call.paragraph_num) # {}
        /\ IsNumericSection(call.section_num)
        /\ \/ SectionValue(call.section_num) <= 0
           \/ SectionValue(call.section_num)
                  > ParagraphNodes(call.paragraph_num))
           => result = None
    /\ (call.op = "search_term" /\ OccursNowhere(call.term))
           => result = <<>>
    /\ call.op = "find_paragraph" => result # ValueError

\* "§ 8" has two Absaetze: Absatz 3 of it is absent
C13_Witness ==
    /\ call.op = "find_paragraph_section"
    /\ documents = <<NormA, NormB>>
    /\ call.paragraph_num = <<"8">>
    /\ call.section_num = <<"3">>
    /\ ParagraphNodes(call.paragraph_num) = 2
    /\ result = None

\* no norm is labelled "7"
C13_WitnessLabel ==
    /\ call.op = "find_paragraph"
    /\ documents = <<NormA, NormB>>
    /\ call.paragraph_num = <<"7">>
    /\ result = None

\* "q" occurs nowhere
C13_WitnessTerm ==
    /\ call.op = "search_term"
    /\ documents = <<NormA, NormB>>
    /\ call.term = <<"q">>
    /\ result = <<>>

\* C14: a section argument that is not a number is treated as absence:
\* find_paragraph_section returns None and does not raise, whether or not
\* the paragraph exists and has content.
C14_NonNumericSectionIsAbsent ==
    (/\ call.op = "find_paragraph_section"
     /\ ~IsNumericSection(call.section_num))
    => result = None

-----------------------------------------------------------------------------
(* CacheSpec: server._get_search called one call at a time *)

\* most get_law calls of one run
MaxLoads == 3

\* str.upper, one character
UpperChar(c) ==
    IF c \in LowerAlpha THEN CHOOSE u \in UpperAlpha : LowerOf[u] = c ELSE c

\* str.upper
Upper(s) == [i \in 1..Len(s) |-> UpperChar(s[i])]

\* a wrong variant of law_upper: the code is the key as it was typed
LawUpperAsTyped(code) == code

\* law_upper = law_code.upper()
law_upper(code) == Upper(code)

\* the law codes the tools are called with
LawCodes15 ==
    {<<"B", "G", "B">>, <<"b", "g", "b">>, <<"B", "g", "b">>, <<"A", "O">>,
     <<"a", "o">>}

\* models.Dokumente around its normen
Dokumente(normen) == [normen |-> normen]

\* what get_law can return: None (Absent), or the Dokumente parsed from a
\* law file (one whose first norm lists abbreviations, one whose first
\* norm has no metadata)
LawFiles ==
    {Dokumente(parse_dokumente(Node("dokumente", <<XmlHeader, XmlParagraph>>))),
     Dokumente(parse_dokumente(Node("dokumente", <<XmlNoMeta>>)))}

\* law_key: dokumente.get_jurabk()[0], or law_upper without abbreviations
LawKey(dokumente, code) ==
    IF get_jurabk(dokumente.normen) # <<>>
    THEN get_jurabk(dokumente.normen)[1]
    ELSE law_upper(code)

\* LawSearch(dokumente, law_key): id tells one instance from another, it
\* is the number of the get_law call the instance was built from
LawSearchOf(dokumente, code, id) ==
    [id |-> id, documents |-> dokumente, law_code |-> LawKey(dokumente, code)]

\* _search_cache[law_upper] = search
Store(cache, key, search) ==
    [k \in DOMAIN cache \cup {key} |-> IF k = key THEN search ELSE cache[k]]

CacheInit ==
    /\ _search_cache = <<>>
    /\ get_law_log = <<>>
    /\ mapping = <<>>
    /\ files = {}
    /\ net_log = <<>>
    /\ callers = <<>>
    /\ call = [op |-> "none"]
    /\ result = NotStarted
    /\ documents = <<>>
    /\ law_code = <<>>
    /\ parts = NoParts
    /\ reference = <<>>
    /\ parsed = NoMatch
    /\ pc = "done"
    /\ root = None

\* the cache hit of _get_search
GetSearchCached(code) ==
    /\ law_upper(code) \in DOMAIN _search_cache
    /\ result' = _search_cache[law_upper(code)]
    /\ UNCHANGED <<_search_cache, get_law_log>>

\* a wrong variant of GetSearchLoad: a failed load is stored as well
GetSearchLoadCachesFailure(code, dokumente) ==
    /\ law_upper(code) \notin DOMAIN _search_cache
    /\ Len(get_law_log) < MaxLoads
    /\ get_law_log' = Append(get_law_log, [law_code |-> code,
                                            dokumente |-> dokumente])
    /\ result' = IF ~Present(dokumente) THEN Absent
                 ELSE LawSearchOf(dokumente, code, Len(get_law_log) + 1)
    /\ _search_cache' =
           Store(_search_cache, law_upper(code),
                 IF ~Present(dokumente) THEN Absent
                 ELSE LawSearchOf(dokumente, code, Len(get_law_log) + 1))

\* the cache miss of _get_search: get_law is called and returns dokumente
GetSearchLoad(code, dokumente) ==
    /\ law_upper(code) \notin DOMAIN _search_cache
    /\ Len(get_law_log) < MaxLoads
    /\ get_law_log' = Append(get_law_log, [law_code |-> code,
                                            dokumente |-> dokumente])
    /\ IF ~Present(dokumente)
       THEN /\ result' = Absent
            /\ UNCHANGED _search_cache
       ELSE /\ result' = LawSearchOf(dokumente, code, Len(get_law_log) + 1)
            /\ _search_cache' =
                   Store(_search_cache, law_upper(code),
                         LawSearchOf(dokumente, code, Len(get_law_log) + 1))

\* server._get_search(law_code)
GetSearch(code, dokumente) ==
    /\ Idle
    /\ call' = [op |-> "_get_search", law_code |-> code]
    /\ (GetSearchCached(code) \/ GetSearchLoad(code, dokumente))
    /\ UNCHANGED <<documents, law_code, parts, reference, parsed, pc, root,
                   mapping, files, net_log, callers>>

CacheNext ==
    \/ \E code \in LawCodes15, dokumente \in LawFiles \cup {Absent} :
           GetSearch(code, dokumente)
    \/ Return

CacheSpec == CacheInit /\ [][CacheNext]_vars

-----------------------------------------------------------------------------
(* Claims about the LawSearch cache, checked under CacheSpec *)

\* the numbers of the get_law calls that returned a Dokumente
Loaded15 == {i \in 1..Len(get_law_log) : Present(get_law_log[i].dokumente)}

\* two codes equal ignoring letter case
SameCode(a, b) == Lower(a) = Lower(b)

\* the cache as the history of loads accounts for it: keys are upper-cased,
\* there is one entry for each code loaded successfully and no other, each
\* entry is the instance built from that load, no code was loaded again
\* after a successful load, and a call that returns an instance returns
\* the cached one
CacheMatchesLoads ==
    /\ \A k \in DOMAIN _search_cache : k = Upper(k)
    /\ DOMAIN _search_cache = {Upper(get_law_log[i].law_code) : i \in Loaded15}
    /\ \A i \in Loaded15 :
           /\ _search_cache[Upper(get_law_log[i].law_code)].id = i
           /\ \A j \in (i + 1)..Len(get_law_log) :
                  ~SameCode(get_law_log[j].law_code, get_law_log[i].law_code)
    /\ (call.op = "_get_search" /\ Present(result))
           => \E k \in DOMAIN _search_cache :
                  /\ SameCode(k, call.law_code)
                  /\ result = _search_cache[k]

\* a step keeps every entry as it is, and a call for a code that has an
\* entry returns that entry's instance without another get_law call
CacheStep ==
    /\ \A k \in DOMAIN _search_cache :
           /\ k \in DOMAIN _search_cache'
           /\ _search_cache'[k] = _search_cache[k]
    /\ \A k \in DOMAIN _search_cache :
           (call'.op = "_get_search" /\ SameCode(k, call'.law_code))
           => /\ result' = _search_cache[k]
              /\ get_law_log' = get_law_log

\* C15: in any sequence of _get_search calls run one at a time, once a
\* call for a law code has returned an instance every later call with a
\* code equal to it ignoring letter case returns that same instance without
\* calling get_law again; cache keys are the upper-cased codes; an entry
\* once stored is never removed or replaced, so the cache only grows and
\* holds one entry per distinct upper-cased code that loaded successfully.
C15_CacheNeverForgets == []CacheMatchesLoads /\ [][CacheStep]_vars

\* "BGB" was loaded by the first get_law call; a later call for "bgb"
\* returns that instance and get_law has not been called for it
C15_Witness ==
    /\ call.op = "_get_search"
    /\ call.law_code = <<"b", "g", "b">>
    /\ Len(get_law_log) = 2
    /\ get_law_log[1].law_code = <<"B", "G", "B">>
    /\ get_law_log[2].law_code = <<"a", "o">>
    /\ DOMAIN _search_cache = {<<"B", "G", "B">>, <<"A", "O">>}
    /\ result = _search_cache[<<"B", "G", "B">>]
    /\ result.id = 1

-----------------------------------------------------------------------------
(* ContentSpec: parse_dl and parse_content applied to one element *)

\* most children of the element parsed
MaxChildren == 3

DtA == Leaf("DT", <<"a">>)

DtB == Leaf("DT", <<"b">>)

Dd1 == Element("DD", [ID |-> <<"1">>], None, <<Leaf("LA", <<"t">>)>>, None)

Dd2 == Element("DD", [ID |-> <<"2">>], None, <<>>, None)

\* a child of a definition list that is neither a term nor a description
DlOther == Leaf("X", <<"o">>)

DlChildPool == {DtA, DtB, Dd1, Dd2, DlOther}

\* the sequences of up to n elements of a pool
RECURSIVE ChildLists(_, _)
ChildLists(pool, n) ==
    IF n = 0 THEN {<<>>}
    ELSE ChildLists(pool, n - 1)
         \cup {Append(l, x) :
                  l \in {m \in ChildLists(pool, n - 1) : Len(m) = n - 1},
                  x \in pool}

DlElements == {Node("DL", l) : l \in ChildLists(DlChildPool, MaxChildren)}

\* reference markers: the marker text is "7", the tails differ
RecLower == Element("SUP", [class |-> Rec], <<"7">>, <<>>, <<" ", "x">>)

RecUpper == Element("SUP", [Class |-> Rec], <<"7">>, <<>>, None)

RecBlankTail == Element("SUP", [class |-> Rec], <<"7">>, <<>>, <<" ">>)

RecBreakTail ==
    Element("SUP", [class |-> Rec], <<"7">>, <<>>, <<"\n", " ", "z">>)

\* a superscript that is no reference marker
SupPlain ==
    Element("SUP", [class |-> <<"R">>], <<"2">>, <<>>, <<"\n", " ", "z">>)

\* Absaetze: "(1) Ha" with a marker inside, "(2a) b", and "Ha (1)"
PMarked ==
    Element("P", NoAttrib, <<"(", "1", ")", " ", "H", "a">>, <<RecLower>>,
            None)

PLettered ==
    Element("P", NoAttrib, <<"(", "2", "a", ")", " ", "b">>, <<>>, <<" ">>)

PPlain == Leaf("P", <<"H", "a", " ", "(", "1", ")">>)

\* a line break, followed by text
Break == Element("BR", NoAttrib, None, <<>>, <<"x", " ", " ", "y", "\n">>)

\* children with a tag parse_content_elements does not know: one with
\* text and a nested element, one without any text
Unknown ==
    Element("Q", NoAttrib, <<" ", "q">>, <<Leaf("B", <<"r">>)>>, <<"\t", "\n">>)

UnknownEmpty == Element("Q", NoAttrib, None, <<>>, None)

ContentChildPool ==
    {RecLower, RecUpper, RecBlankTail, RecBreakTail, SupPlain, PMarked,
     PLettered, PPlain, Break, Unknown, UnknownEmpty}

\* the text before the first child: none, only blanks, and words in
\* blanks that are apart by a blank and a line break
LeadingTexts ==
    {None, <<"\n", "\t">>, <<" ", "a", " ", "\n", "b", "\n">>}

ContentElements ==
    {Element("Content", NoAttrib, t, l, None) :
        t \in LeadingTexts,
        l \in ChildLists(ContentChildPool, MaxChildren)}

ContentInit ==
    /\ root \in DlElements \cup ContentElements
    /\ pc = "start"
    /\ result = NotStarted
    /\ call = [op |-> "none"]
    /\ documents = <<>>
    /\ law_code = <<>>
    /\ parts = NoParts
    /\ reference = <<>>
    /\ parsed = NoMatch
    /\ _search_cache = <<>>
    /\ get_law_log = <<>>
    /\ mapping = <<>>
    /\ files = {}
    /\ net_log = <<>>
    /\ callers = <<>>

ParserFrame ==
    UNCHANGED <<documents, law_code, parts, reference, parsed, root,
                _search_cache, get_law_log,
                   mapping, files, net_log, callers>>

ParseDl ==
    /\ pc = "start"
    /\ root.tag = "DL"
    /\ call' = [op |-> "parse_dl"]
    /\ result' = parse_dl(root)
    /\ pc' = "done"
    /\ ParserFrame

ParseContent ==
    /\ pc = "start"
    /\ root.tag = "Content"
    /\ call' = [op |-> "parse_content"]
    /\ result' = parse_content(root)
    /\ pc' = "done"
    /\ ParserFrame

ContentNext == ParseDl \/ ParseContent

ContentSpec == ContentInit /\ [][ContentNext]_vars

-----------------------------------------------------------------------------
(* Claims about the content parser, checked under ContentSpec *)

\* the positions of the terms that a description follows immediately
AdjacentPairs ==
    {i \in 1..(Len(root.children) - 1) :
        root.children[i].tag = "DT" /\ root.children[i + 1].tag = "DD"}

\* C16: parse_dl emits an item for a term (DT) and a description (DD) only
\* when the DD is the child immediately following that DT; a DD with no
\* pending DT, and a DT followed by another DT, by any other child or by
\* the end of the list, produce no item; items keep source order.
C16_AdjacentPairsOnly ==
    call.op = "parse_dl" =>
        /\ Len(result.items) = Cardinality(AdjacentPairs)
        /\ \A k \in 1..Len(result.items) :
               /\ result.items[k].dt.text
                      = root.children[NthOf(AdjacentPairs, k)].text
               /\ result.items[k].dd.id
                      = root.children[NthOf(AdjacentPairs, k) + 1].attrib.ID

\* the element parsed, cut after its first i children
Prefix(i) == [root EXCEPT !.children = SubSeq(root.children, 1, i)]

\* the reference markers among the children
Markers ==
    {i \in 1..Len(root.children) :
        root.children[i]
            \in {RecLower, RecUpper, RecBlankTail, RecBreakTail}}

\* the tails of the children of the model: the text node the tail rule
\* gives each, and the words it adds to the flattened text
TailTable ==
    {[tail |-> None, node |-> <<>>, words |-> <<>>],
     [tail |-> <<" ">>, node |-> <<>>, words |-> <<>>],
     [tail |-> <<" ", "x">>, node |-> <<StrElem(<<" ", "x">>)>>,
      words |-> << <<"x">> >>],
     [tail |-> <<"\t", "\n">>, node |-> <<>>, words |-> <<>>],
     [tail |-> <<"x", " ", " ", "y", "\n">>,
      node |-> <<StrElem(<<"x", " ", "y", " ">>)>>,
      words |-> << <<"x">>, <<"y">> >>],
     [tail |-> <<"\n", " ", "z">>, node |-> <<StrElem(<<" ", "z">>)>>,
      words |-> << <<"z">> >>]}

\* the last element of a non-empty sequence
LastNode(seq) == seq[Len(seq)]

TailOf(i) == CHOOSE row \in TailTable : row.tail = root.children[i].tail

\* C17: for a child SUP element whose class (or Class) attribute is 'Rec',
\* parse_content_elements emits no node for the element and none of its
\* own text, in the node sequence or in the flattened raw text, but the
\* element's tail text is still emitted as a plain text node under the
\* same tail rule as for every other child.
C17_MarkerDroppedTailKept ==
    call.op = "parse_content" =>
        /\ result.elements = parse_content_elements(Prefix(Len(root.children)))
        /\ result.raw_text = _extract_raw_text(Prefix(Len(root.children)))
        /\ ~Contains(result.raw_text, <<"7">>)
        /\ \A i \in Markers :
               /\ parse_content_elements(Prefix(i))
                      = parse_content_elements(Prefix(i - 1)) \o TailOf(i).node
               /\ SplitWords(_extract_raw_text(Prefix(i)))
                      = SplitWords(_extract_raw_text(Prefix(i - 1)))
                            \o TailOf(i).words
        /\ \A i \in (1..Len(root.children)) \ Markers :
               /\ Len(parse_content_elements(Prefix(i)))
                      >= Len(parse_content_elements(Prefix(i - 1)))
                             + Len(TailOf(i).node)
               /\ TailOf(i).node # <<>>
                      => LastNode(parse_content_elements(Prefix(i)))
                             = TailOf(i).node[1]

\* a marker with tail " x", then a plain superscript with tail "\n z"
C17_Witness ==
    /\ call.op = "parse_content"
    /\ root.text = None
    /\ root.children = <<RecLower, SupPlain>>
    /\ Len(result.elements) = 3
    /\ result.elements[1] = StrElem(<<" ", "x">>)
    /\ result.elements[2].kind = "FormatElement"
    /\ result.elements[3] = StrElem(<<" ", "z">>)
    /\ result.raw_text = <<"x", " ", "2", " ", "z">>

\* the position of the ")" that closes "(" + digits + an optional letter
\* at the very start of a text, 0 when the text does not start that way
TokenClose(text) ==
    IF \E e \in 3..Len(text) :
           /\ text[1] = "(" /\ text[e] = ")"
           /\ \E d \in 2..(e - 1) :
                  /\ \A i \in 2..d : text[i] \in Digit
                  /\ d = e - 1 \/ (d = e - 2 /\ text[e - 1] \in Alpha)
    THEN CHOOSE e \in 3..Len(text) : text[e] = ")"
                                     /\ \A i \in 1..(e - 1) : text[i] # ")"
    ELSE 0

\* the P nodes among the nodes parse_content returned
ParsedPs == {k \in 1..Len(result.elements) : result.elements[k].kind = "P"}

\* C18: every P node produced by the parser whose flattened raw text starts
\* with '(' + digits and an optional letter + ')' carries that enclosed
\* token as its Absatz number, and its raw text keeps the prefix; a P node
\* whose raw text does not start that way has no Absatz number.
C18_CarriesAbsatzNumber ==
    call.op = "parse_content" =>
        \A k \in ParsedPs :
            IF TokenClose(result.elements[k].raw_text) > 0
            THEN /\ "absatz_num" \in DOMAIN result.elements[k]
                 /\ result.elements[k].absatz_num
                        = SubSeq(result.elements[k].raw_text, 2,
                                 TokenClose(result.elements[k].raw_text) - 1)
            ELSE \/ "absatz_num" \notin DOMAIN result.elements[k]
                 \/ result.elements[k].absatz_num = None

-----------------------------------------------------------------------------
(* Claims about the facets of a norm and the header accessors, checked     *)
(* under DocSpec                                                           *)

\* the positions of the norms that have metadata
WithMetadata ==
    {i \in 1..Len(documents) : Present(documents[i].metadaten)}

\* the norm at position i is one of the norms of a list
OneOf(list, i) == \E k \in 1..Len(list) : list[k] = documents[i]

RECURSIVE SourceJurabk(_)
SourceJurabk(children) ==
    IF children = <<>> THEN <<>>
    ELSE (IF /\ Head(children).tag = "jurabk"
             /\ Head(children).text # None
             /\ NonSpace(Head(children).text) # {}
          THEN <<SubSeq(Head(children).text,
                        Min(NonSpace(Head(children).text)),
                        Max(NonSpace(Head(children).text)))>>
          ELSE <<>>)
         \o SourceJurabk(Tail(children))

\* C20: get_titel and get_jurabk read the first norm only: the title is
\* the first norm's long title (langue) or, when that is absent or empty,
\* its titel, and the abbreviation list is the first norm's jurabk list in
\* source order; when the document is empty or the first norm has no
\* metadata they return None and the empty list, whatever later norms
\* hold.
C20_FirstNormOnly ==
    /\ call.op = "get_titel" =>
           result = IF documents = <<>> \/ 1 \notin WithMetadata THEN None
                    ELSE IF documents[1].metadaten.langue \notin {None, <<>>}
                    THEN documents[1].metadaten.langue
                    ELSE documents[1].metadaten.titel
    /\ call.op = "get_jurabk" =>
           result = IF documents = <<>> \/ 1 \notin WithMetadata THEN <<>>
                    ELSE SourceJurabk(
                             FindChild(root.children[1], "metadaten").children)

\* the first norm lists "BGB", a blank and " X\n"; the second lists "Y"
C20_Witness ==
    /\ call.op = "get_jurabk"
    /\ root.children = <<XmlHeader, XmlHeaderShort>>
    /\ documents[2].metadaten.jurabk = << <<"Y">> >>
    /\ result = << <<"B", "G", "B">>, <<"X">> >>

\* the first norm has no metadata, the second has a long title
C20_WitnessNoMetadata ==
    /\ call.op = "get_titel"
    /\ root.children = <<XmlNoMeta, XmlHeader>>
    /\ documents[2].metadaten.langue = <<"L">>
    /\ result = None

\* a blank long title: the titel stands in
C20_WitnessFallback ==
    /\ call.op = "get_titel"
    /\ root.children = <<XmlHeaderShort, XmlHeader>>
    /\ documents[1].metadaten.langue = <<>>
    /\ result = <<"K">>

-----------------------------------------------------------------------------
(* Claims about what the queries leave alone, checked under Spec *)

\* C21: every query operation of LawSearch (find_paragraph,
\* find_paragraph_section, get_by_reference, search_term,
\* list_all_paragraphs, show_info) leaves the Document, its norms and
\* content trees, and the LawSearch's law code unchanged, in any sequence
\* of calls and whether the call finds something or not.
C21_QueriesReadOnly ==
    [][documents' = documents /\ law_code' = law_code]_vars

\* show_info has run on a document with a heading and a paragraph
C21_Witness ==
    /\ call.op = "show_info"
    /\ documents = <<NormD, NormA>>
    /\ law_code = <<"B", "G", "B">>
    /\ Len(result) > 2 * RuleWidth

\* what a node is, in short: its kind and the text it stands for
Sketch(node) ==
    IF node.kind = "str" THEN <<"str", node.text>>
    ELSE IF node.kind = "P" THEN <<"P", node.raw_text>>
    ELSE <<node.kind, node.text>>

\* the node each child of the model is to give, in short
NodeTable ==
    {[child |-> RecLower, nodes |-> <<>>],
     [child |-> RecUpper, nodes |-> <<>>],
     [child |-> RecBlankTail, nodes |-> <<>>],
     [child |-> RecBreakTail, nodes |-> <<>>],
     [child |-> SupPlain, nodes |-> << <<"FormatElement", <<"2">>>> >>],
     [child |-> PMarked,
      nodes |-> << <<"P", <<"(", "1", ")", " ", "H", "a", " ", "x">>>> >>],
     [child |-> PLettered,
      nodes |-> << <<"P", <<"(", "2", "a", ")", " ", "b">>>> >>],
     [child |-> PPlain,
      nodes |-> << <<"P", <<"H", "a", " ", "(", "1", ")">>>> >>],
     [child |-> Break, nodes |-> << <<"str", <<"\n">>>> >>],
     [child |-> Unknown, nodes |-> << <<"str", <<"q", " ", "r">>>> >>],
     [child |-> UnknownEmpty, nodes |-> <<>>]}

NodesOf(i) == (CHOOSE row \in NodeTable : row.child = root.children[i]).nodes

\* the node each leading text of the model is to give, in short
LeadingTable ==
    {[text |-> None, nodes |-> <<>>],
     [text |-> <<"\n", "\t">>, nodes |-> <<>>],
     [text |-> <<" ", "a", " ", "\n", "b", "\n">>,
      nodes |-> << <<"str", <<"a", " ", "b">>>> >>]}

LeadingSketch == (CHOOSE row \in LeadingTable : row.text = root.text).nodes

\* the nodes expected of the first i children, in short
RECURSIVE ExpectedSketch(_)
ExpectedSketch(i) ==
    IF i = 0 THEN LeadingSketch
    ELSE ExpectedSketch(i - 1) \o NodesOf(i)
         \o [k \in 1..Len(TailOf(i).node) |-> Sketch(TailOf(i).node[k])]

\* C22: parse_content_elements emits nodes in document order: the leading
\* text first, then for each child in source order the node built for that
\* child directly followed by the child's tail text; a BR child becomes a
\* text node holding a single newline; a child with a tag outside the
\* dispatch set contributes the flattened raw text of its subtree (nothing
\* when that text is empty) and never causes an error.
C22_NodesInDocumentOrder ==
    call.op = "parse_content" =>
        [k \in 1..Len(result.elements) |-> Sketch(result.elements[k])]
            = ExpectedSketch(Len(root.children))

\* leading text, an unknown tag with text, a line break with a tail
C22_Witness ==
    /\ call.op = "parse_content"
    /\ root.text = <<" ", "a", " ", "\n", "b", "\n">>
    /\ root.children = <<Unknown, Break, UnknownEmpty>>
    /\ result.elements
           = <<StrElem(<<"a", " ", "b">>), StrElem(<<"q", " ", "r">>),
               StrElem(<<"\n">>), StrElem(<<"x", " ", "y", " ">>)>>

\* a text without line break or tab and without two adjacent spaces
Clean(s) ==
    /\ \A k \in 1..Len(s) : s[k] \notin {"\n", "\t"}
    /\ \A k \in 1..(Len(s) - 1) : ~(s[k] = " " /\ s[k + 1] = " ")

\* the characters of a text that are not whitespace, in order
Ink(s) == SelectSeq(s, LAMBDA c : c \notin Space)

\* whether a text node was emitted for the leading text
LeadingEmitted ==
    Len(result.elements) > Len(parse_content_elements(
        Element("Content", NoAttrib, None, root.children, None)))

\* the nodes the tail of child i added behind the node of the child itself
TailNodes(i) ==
    SubSeq(parse_content_elements(Prefix(i)),
           Len(parse_content_elements(Prefix(i - 1)))
               + Len(ChildNode(root.children[i])) + 1,
           Len(parse_content_elements(Prefix(i))))

\* a text node emitted for a source text: clean, neither '' nor ' ', with
\* the words of the source
NodeFor(nodes, source) ==
    /\ Len(nodes) = 1
    /\ nodes[1].kind = "str"
    /\ Clean(nodes[1].text)
    /\ nodes[1].text \notin {<<>>, <<" ">>}
    /\ Ink(nodes[1].text) = Ink(source)

\* a text keeps a space where the source began or ended with whitespace
KeepsEnds(text, source) ==
    /\ (text[1] = " ") = (source[1] \in Space)
    /\ (text[Len(text)] = " ") = (source[Len(source)] \in Space)

\* the source texts parse_content_elements normalizes
SourceTexts ==
    ({root.text} \cup {root.children[i].tail : i \in 1..Len(root.children)})
        \ {None}

\* C23: text nodes built by parse_content_elements from leading text or
\* tail text contain no line break or tab and no two adjacent spaces; a
\* leading-text node is trimmed as a whole and emitted only when non-empty;
\* a tail is emitted unless its normalized form is empty or exactly one
\* space, so no emitted leading or tail text node is '' or ' ', and a tail
\* with other content keeps its leading and trailing space. Normalizing an
\* already normalized text changes nothing.
C23_TextNodesNormalized ==
    call.op = "parse_content" =>
        /\ result.elements = parse_content_elements(Prefix(Len(root.children)))
        /\ LeadingEmitted = (root.text # None /\ Ink(root.text) # <<>>)
        /\ LeadingEmitted =>
               /\ NodeFor(<<result.elements[1]>>, root.text)
               /\ result.elements[1].text[1] # " "
               /\ LastNode(result.elements[1].text) # " "
        /\ \A i \in 1..Len(root.children) :
               LET nodes == TailNodes(i)
                   tail == root.children[i].tail
               IN  /\ (nodes # <<>>)
                          = (tail # None
                             /\ _normalize_whitespace(tail)
                                    \notin {<<>>, <<" ">>})
                   /\ nodes # <<>> =>
                          /\ NodeFor(nodes, tail)
                          /\ KeepsEnds(nodes[1].text, tail)
        /\ \A t \in SourceTexts :
               /\ Clean(_normalize_whitespace(t))
               /\ _normalize_whitespace(_normalize_whitespace(t))
                      = _normalize_whitespace(t)

\* a leading text of blanks only gives no node, a tail of blanks only
\* gives none, and a tail with words keeps its trailing space
C23_Witness ==
    /\ call.op = "parse_content"
    /\ root.text = <<"\n", "\t">>
    /\ root.children = <<Unknown, Break>>
    /\ result.elements
           = <<StrElem(<<"q", " ", "r">>), StrElem(<<"\n">>),
               StrElem(<<"x", " ", "y", " ">>)>>

\* a leading text in blanks, with a blank and a line break between its
\* words
C23_WitnessLeading ==
    /\ call.op = "parse_content"
    /\ root.text = <<" ", "a", " ", "\n", "b", "\n">>
    /\ root.children = <<RecBreakTail>>
    /\ result.elements
           = <<StrElem(<<"a", " ", "b">>), StrElem(<<" ", "z">>)>>


-----------------------------------------------------------------------------
(* utils.find_law_in_mapping: the law mapping and the lookup of a code *)

\* most keys of a law mapping
MaxKeys == 3

\* an entry of the law mapping: its key and the LawMapping fields read
MappingEntry(key, filename, url_path) ==
    [key |-> key, filename |-> filename, url_path |-> url_path]

\* the positions of the keys each pass of find_law_in_mapping accepts
ExactHits(code, m) == {i \in 1..Len(m) : m[i].key = code}

FoldHits(code, m) ==
    {i \in 1..Len(m) : Upper(m[i].key) = Upper(code)}

DelimiterHits(code, m) ==
    {i \in 1..Len(m) :
        \/ StartsWithAt(Upper(m[i].key), 1, Upper(code) \o <<" ">>)
        \/ StartsWithAt(Upper(m[i].key), 1, Upper(code) \o <<"_">>)}

StartHits(code, m) ==
    {i \in 1..Len(m) : StartsWithAt(Upper(m[i].key), 1, Upper(code))}

\* utils.find_law_in_mapping
find_law_in_mapping(code, m) ==
    IF ExactHits(code, m) # {} THEN code
    ELSE IF FoldHits(code, m) # {} THEN m[Min(FoldHits(code, m))].key
    ELSE IF DelimiterHits(code, m) # {}
         THEN m[Min(DelimiterHits(code, m))].key
    ELSE IF StartHits(code, m) # {}
         THEN m[Min(StartHits(code, m))].key
    ELSE None

\* keys of the mapping: a code, the same in small letters, the code with
\* a year, with an underscore, with a letter behind it, and another code
MappingKeys ==
    {<<"H", "G", "B">>, <<"h", "g", "b">>, <<"H", "G", "B", " ", "2">>,
     <<"h", "g", "b", "_", "x">>, <<"H", "G", "B", "X">>, <<"A", "O">>}

\* the codes looked up
LookupCodes ==
    {<<"H", "G", "B">>, <<"H", "g", "b">>, <<"H", "G">>, <<"a", "o">>,
     <<"X">>}

\* the mappings with up to n keys, each key once, in every order
RECURSIVE KeyLists(_)
KeyLists(n) ==
    IF n = 0 THEN {<<>>}
    ELSE KeyLists(n - 1)
         \cup {Append(l, k) : l \in {x \in KeyLists(n - 1) : Len(x) = n - 1},
                              k \in MappingKeys}

DistinctKeyLists ==
    {l \in KeyLists(MaxKeys) : Cardinality({l[i] : i \in 1..Len(l)}) = Len(l)}

LookupMappings ==
    {[i \in 1..Len(l) |-> MappingEntry(l[i], "law.xml", Lower(l[i]))] :
        l \in DistinctKeyLists}

MapInit ==
    /\ mapping \in LookupMappings
    /\ pc = "done"
    /\ result = NotStarted
    /\ call = [op |-> "none"]
    /\ documents = <<>>
    /\ law_code = <<>>
    /\ parts = NoParts
    /\ reference = <<>>
    /\ parsed = NoMatch
    /\ root = None
    /\ _search_cache = <<>>
    /\ get_law_log = <<>>
    /\ files = {}
    /\ net_log = <<>>
    /\ callers = <<>>

FindLawInMapping(code) ==
    /\ Idle
    /\ call' = [op |-> "find_law_in_mapping", law_code |-> code]
    /\ result' = find_law_in_mapping(code, mapping)
    /\ UNCHANGED <<documents, law_code, parts, reference, parsed, pc, root,
                   _search_cache, get_law_log, mapping, files, net_log,
                   callers>>

MapNext ==
    \/ \E code \in LookupCodes : FindLawInMapping(code)
    \/ Return

MapSpec == MapInit /\ [][MapNext]_vars

\* the characters of a word
WordChar == UpperAlpha \cup LowerAlpha \cup Digit \cup {"_"}

\* whether the code stands at the start of the key and ends there at a
\* word boundary
AtWordBoundary(code, key) ==
    /\ StartsWithAt(Upper(key), 1, Upper(code))
    /\ Len(key) = Len(code) \/ key[Len(code) + 1] \notin WordChar

\* the first key of the mapping in a set of positions, None without one
FirstKey(hits) == IF hits = {} THEN None ELSE mapping[Min(hits)].key

\* C26: find_law_in_mapping returns a key of the mapping or None, choosing
\* by this priority whatever the order of keys in the mapping: the exact
\* key; else the first key equal to the code ignoring case; else the first
\* key that starts, ignoring case, with the code followed by a space or an
\* underscore; else, as the final fallback, the first key in which the code
\* matches at the start at a word boundary; None when none of these
\* applies.
C26_LookupPriority ==
    call.op = "find_law_in_mapping" =>
        LET code == call.law_code
            keys == 1..Len(mapping)
            fold == {i \in keys : Upper(mapping[i].key) = Upper(code)}
            delim == {i \in keys :
                         /\ Len(mapping[i].key) > Len(code)
                         /\ SubSeq(Upper(mapping[i].key), 1, Len(code))
                                = Upper(code)
                         /\ mapping[i].key[Len(code) + 1] \in {" ", "_"}}
            bound == {i \in keys : AtWordBoundary(code, mapping[i].key)}
        IN  result = IF \E i \in keys : mapping[i].key = code THEN code
                     ELSE IF fold # {} THEN FirstKey(fold)
                     ELSE IF delim # {} THEN FirstKey(delim)
                     ELSE FirstKey(bound)


-----------------------------------------------------------------------------
(* utils.get_law and utils.download_laws_batch: the law mapping on disk,  *)
(* the data directory, the TOC index and the downloads                     *)

\* most TOC lookups and downloads in a behaviour
MaxNet == 3

\* the characters of keys in the order of their code points
CodePoints ==
    <<" ", "0", "1", "2", "3", "4", "5", "6", "7", "8", "9",
      "A", "B", "C", "D", "E", "F", "G", "H", "I", "J", "K", "L", "M",
      "N", "O", "P", "Q", "R", "S", "T", "U", "V", "W", "X", "Y", "Z", "_",
      "a", "b", "c", "d", "e", "f", "g", "h", "i", "j", "k", "l", "m",
      "n", "o", "p", "q", "r", "s", "t", "u", "v", "w", "x", "y", "z">>

Ord(c) == CHOOSE i \in 1..Len(CodePoints) : CodePoints[i] = c

\* a < b for Python strings
RECURSIVE StrLess(_, _)
StrLess(a, b) ==
    IF b = <<>> THEN FALSE
    ELSE IF a = <<>> THEN TRUE
    ELSE IF a[1] # b[1] THEN Ord(a[1]) < Ord(b[1])
    ELSE StrLess(Tail(a), Tail(b))

\* the entries of a mapping before and after a key, in order
EntriesBelow(m, key) == SelectSeq(m, LAMBDA e : StrLess(e.key, key))

EntriesAbove(m, key) == SelectSeq(m, LAMBDA e : StrLess(key, e.key))

\* mapping[key] = entry followed by save_law_mapping, which writes the
\* keys sorted: the file holds the entry in the place of its key
SavedWith(m, entry) ==
    EntriesBelow(m, entry.key) \o <<entry>> \o EntriesAbove(m, entry.key)

\* mapping[key]
LawInfo(m, key) == m[CHOOSE i \in 1..Len(m) : m[i].key = key]

\* an entry of the TOC index, with what its URL serves: the name of the
\* XML file in the ZIP and the jurabk written in it
TocEntry(title, url_path, filename, jurabk) ==
    [title |-> title, url_path |-> url_path, filename |-> filename,
     jurabk |-> jurabk]

TocHGB ==
    TocEntry(<<"H", "G", "B">>, <<"h", "g", "b">>, "hgb.xml",
             <<"H", "G", "B">>)

TocAO ==
    TocEntry(<<"A", "b", "g", "a", "b", "e", "n">>,
             <<"a", "o", "_", "1", "9", "7", "7">>, "ao.xml",
             <<"A", "O", " ", "1", "9", "7", "7">>)

TocEStG ==
    TocEntry(<<"E", "S", "t", "G">>, <<"e", "s", "t", "g">>, "estg.xml",
             <<"E", "S", "t", "G">>)

\* gii-toc.xml, as load_toc_index reads it
TocIndex == <<TocHGB, TocAO, TocEStG>>

\* the positions of the TOC entries each pass of find_law_in_toc accepts
TocPathHits(code, toc) ==
    {i \in 1..Len(toc) : Lower(toc[i].url_path) = Lower(code)}

TocPrefixHits(code, toc) ==
    {i \in 1..Len(toc) :
        StartsWithAt(Lower(toc[i].url_path), 1, Lower(code) \o <<"_">>)}

TocPartHits(code, toc) ==
    {i \in 1..Len(toc) : Contains(Lower(toc[i].url_path), Lower(code))}

TocTitleHits(code, toc) ==
    {i \in 1..Len(toc) : Contains(Upper(toc[i].title), Upper(code))}

\* utils.find_law_in_toc
find_law_in_toc(code, toc) ==
    IF TocPathHits(code, toc) # {} THEN toc[Min(TocPathHits(code, toc))]
    ELSE IF TocPrefixHits(code, toc) # {}
         THEN toc[Min(TocPrefixHits(code, toc))]
    ELSE IF TocPartHits(code, toc) # {}
         THEN toc[Min(TocPartHits(code, toc))]
    ELSE IF TocTitleHits(code, toc) # {}
         THEN toc[Min(TocTitleHits(code, toc))]
    ELSE Absent

\* the Dokumente parse_gesetz builds from a file of the data directory
ParsedFile(filename) == [parsed_from |-> filename]

\* the end of get_law: the file of the key is parsed when it exists
LoadKey(m, key, fs, parses) ==
    IF key = None THEN Absent
    ELSE IF LawInfo(m, key).filename \notin fs THEN Absent
    ELSE IF parses THEN ParsedFile(LawInfo(m, key).filename)
    ELSE Absent

\* the mapping entry get_law and download_laws_batch write for a download
DownloadedEntry(entry) ==
    MappingEntry(entry.jurabk, entry.filename, entry.url_path)

\* get_law when the code is in the mapping, or auto_download is off
GetLawLocal(code, parses) ==
    /\ result' = LoadKey(mapping, find_law_in_mapping(code, mapping), files,
                         parses)
    /\ UNCHANGED <<mapping, files, net_log>>

\* get_law when the code is not in the mapping and the TOC has no entry
GetLawNoToc(code) ==
    /\ net_log' = Append(net_log, [op |-> "toc", law_code |-> code])
    /\ result' = Absent
    /\ UNCHANGED <<mapping, files>>

\* get_law when the download of the TOC entry fails
GetLawNoDownload(code, entry) ==
    /\ net_log' = net_log \o <<[op |-> "toc", law_code |-> code],
                               [op |-> "download",
                                url_path |-> entry.url_path]>>
    /\ result' = Absent
    /\ UNCHANGED <<mapping, files>>

\* get_law when the download succeeds
GetLawDownloaded(code, entry, parses) ==
    /\ net_log' = net_log \o <<[op |-> "toc", law_code |-> code],
                               [op |-> "download",
                                url_path |-> entry.url_path]>>
    /\ mapping' = SavedWith(mapping, DownloadedEntry(entry))
    /\ files' = files \cup {entry.filename}
    /\ result' = IF parses THEN ParsedFile(entry.filename) ELSE Absent

\* the download branch of get_law for the TOC index that was loaded
GetLawRemote(code, toc, download_ok, parses) ==
    IF ~Present(find_law_in_toc(code, toc)) THEN GetLawNoToc(code)
    ELSE IF ~download_ok
         THEN GetLawNoDownload(code, find_law_in_toc(code, toc))
    ELSE GetLawDownloaded(code, find_law_in_toc(code, toc), parses)

\* utils.get_law(law_code, auto_download); toc is what load_toc_index
\* returns, download_ok whether download_and_extract_law succeeds, parses
\* whether parse_gesetz does; the call records them with its arguments
GetLaw(code, auto_download, toc, download_ok, parses) ==
    /\ Idle
    /\ Len(net_log) + 2 <= MaxNet
    /\ call' = [op |-> "get_law", law_code |-> code,
                auto_download |-> auto_download, toc |-> toc,
                download_ok |-> download_ok, parses |-> parses]
    /\ IF mapping = <<>>
       THEN result' = Absent /\ UNCHANGED <<mapping, files, net_log>>
       ELSE IF find_law_in_mapping(code, mapping) = None /\ auto_download
            THEN GetLawRemote(code, toc, download_ok, parses)
       ELSE GetLawLocal(code, parses)
    /\ UNCHANGED <<documents, law_code, parts, reference, parsed, pc, root,
                   _search_cache, get_law_log, callers>>


\* longest toc_entries list handed to download_laws_batch
MaxEntries == 3

\* the state of the loop of download_laws_batch: the mapping in memory,
\* the files of the target directory, the three counters, the calls of
\* download_and_extract_law made, and how many entries the loop has taken
BatchStart(m, fs) ==
    [m |-> m, fs |-> fs, downloaded |-> 0, failed |-> 0, skipped |-> 0,
     log |-> <<>>, processed |-> 0]

\* the inner loop over mapping.items(): some entry of the mapping has the
\* url_path of the TOC entry, ignoring case, and its XML file exists
ExistsLocally(entry, m, fs) ==
    \E i \in 1..Len(m) :
        /\ Lower(m[i].url_path) = Lower(entry.url_path)
        /\ m[i].filename \in fs

\* skipped after the skip check of one entry
SkippedAfter(entry, skip_existing, st) ==
    IF skip_existing /\ ExistsLocally(entry, st.m, st.fs)
    THEN st.skipped + 1 ELSE st.skipped

DownloadCall(entry, idx) ==
    [op |-> "download", url_path |-> entry.url_path, idx |-> idx]

\* the download of one entry, which succeeds or fails; the keys of the
\* mapping are written sorted when it is saved, and the loop does not read
\* their order
BatchDownload(entry, ok, idx, skipped, st) ==
    IF ok
    THEN [m |-> SavedWith(st.m, DownloadedEntry(entry)),
          fs |-> st.fs \cup {entry.filename},
          downloaded |-> st.downloaded + 1, failed |-> st.failed,
          skipped |-> skipped, log |-> Append(st.log, DownloadCall(entry, idx)),
          processed |-> st.processed + 1]
    ELSE [m |-> st.m, fs |-> st.fs, downloaded |-> st.downloaded,
          failed |-> st.failed + 1, skipped |-> skipped,
          log |-> Append(st.log, DownloadCall(entry, idx)),
          processed |-> st.processed + 1]

\* one pass of the loop body, for the idx-th entry
BatchStep(entry, ok, idx, skip_existing, st) ==
    IF /\ skip_existing
       /\ SkippedAfter(entry, skip_existing, st) > 0
       /\ idx = SkippedAfter(entry, skip_existing, st)
    THEN [st EXCEPT !.skipped = SkippedAfter(entry, skip_existing, st),
                    !.processed = st.processed + 1]
    ELSE BatchDownload(entry, ok, idx,
                       SkippedAfter(entry, skip_existing, st), st)

RECURSIVE BatchLoop(_, _, _, _, _, _)
BatchLoop(entries, oks, idx, max_downloads, skip_existing, st) ==
    IF idx > Len(entries) THEN st
    ELSE IF max_downloads > 0 /\ st.downloaded >= max_downloads THEN st
    ELSE BatchLoop(entries, oks, idx + 1, max_downloads, skip_existing,
                   BatchStep(entries[idx], oks[idx], idx, skip_existing, st))

\* utils.download_laws_batch
download_laws_batch(entries, oks, max_downloads, skip_existing) ==
    BatchLoop(entries, oks, 1, max_downloads, skip_existing,
              BatchStart(mapping, files))

\* download_laws_batch(toc_entries, target_dir, max_downloads,
\* skip_existing); oks tells for each entry whether its download succeeds.
\* The call records oks and how many entries the loop took. The batch runs
\* before anything else has gone to the network.
DownloadLawsBatch(entries, oks, max_downloads, skip_existing) ==
    /\ Idle
    /\ net_log = <<>>
    /\ call' = [op |-> "download_laws_batch", toc_entries |-> entries,
                oks |-> oks, max_downloads |-> max_downloads,
                skip_existing |-> skip_existing,
                processed |-> download_laws_batch(entries, oks, max_downloads,
                                                  skip_existing).processed]
    /\ result' =
           [downloaded |-> download_laws_batch(entries, oks, max_downloads,
                                               skip_existing).downloaded,
            failed |-> download_laws_batch(entries, oks, max_downloads,
                                           skip_existing).failed,
            skipped |-> download_laws_batch(entries, oks, max_downloads,
                                            skip_existing).skipped]
    /\ mapping' = download_laws_batch(entries, oks, max_downloads,
                                      skip_existing).m
    /\ files' = download_laws_batch(entries, oks, max_downloads,
                                    skip_existing).fs
    /\ net_log' = net_log \o download_laws_batch(entries, oks, max_downloads,
                                                 skip_existing).log
    /\ UNCHANGED <<documents, law_code, parts, reference, parsed, pc, root,
                   _search_cache, get_law_log, callers>>

\* the law mapping as a download of each TOC entry leaves it
EntryHGB == DownloadedEntry(TocHGB)

EntryAO == DownloadedEntry(TocAO)

\* an entry whose url_path is written in capitals
EntryEStG ==
    MappingEntry(<<"E", "S", "t", "G">>, "estg.xml", <<"E", "S", "T", "G">>)

\* law_mapping.json at the start: written by save_law_mapping, keys sorted
LawMappings ==
    {<<>>, <<EntryHGB>>, <<EntryAO>>, <<EntryEStG>>, <<EntryAO, EntryHGB>>,
     <<EntryEStG, EntryHGB>>, <<EntryAO, EntryEStG, EntryHGB>>}

\* the codes asked of get_law
GetLawCodes ==
    {<<"H", "G", "B">>, <<"h", "g", "b">>, <<"A", "O">>, <<"E", "S", "T", "G">>,
     <<"X">>}

\* the toc_entries lists: entries of the TOC index, each at most once
TocLists ==
    {l \in UNION {[1..n -> {TocHGB, TocAO, TocEStG}] : n \in 0..MaxEntries} :
        \A i, j \in 1..Len(l) : l[i] = l[j] => i = j}

LawInit ==
    /\ mapping \in LawMappings
    /\ files \in SUBSET {"hgb.xml", "estg.xml"}
    /\ net_log = <<>>
    /\ pc = "done"
    /\ result = NotStarted
    /\ call = [op |-> "none"]
    /\ documents = <<>>
    /\ law_code = <<>>
    /\ parts = NoParts
    /\ reference = <<>>
    /\ parsed = NoMatch
    /\ root = None
    /\ _search_cache = <<>>
    /\ get_law_log = <<>>
    /\ callers = <<>>

LawNext ==
    \/ \E code \in GetLawCodes, auto_download \in BOOLEAN,
          toc \in {<<>>, TocIndex}, download_ok \in BOOLEAN,
          parses \in BOOLEAN :
           GetLaw(code, auto_download, toc, download_ok, parses)
    \/ \E entries \in TocLists, max_downloads \in {0, 1},
          skip_existing \in BOOLEAN :
           \E oks \in [1..Len(entries) -> BOOLEAN] :
               DownloadLawsBatch(entries, oks, max_downloads, skip_existing)
    \/ Return

LawSpec == LawInit /\ [][LawNext]_vars


\* a step that is a call of get_law with auto_download for a code that
\* find_law_in_mapping does not find in the mapping
MissingLocally ==
    /\ call.op = "none"
    /\ call'.op = "get_law"
    /\ call'.auto_download
    /\ find_law_in_mapping(call'.law_code, mapping) = None

\* the network calls a step has added to the log
NewCalls == SubSeq(net_log', Len(net_log) + 1, Len(net_log'))

\* what get_law is to do for a code it does not find locally, the TOC
\* lookup giving entry
AutoDownload(entry) ==
    /\ NewCalls # <<>>
    /\ NewCalls[1] = [op |-> "toc", law_code |-> call'.law_code]
    /\ Present(entry) =>
           NewCalls = <<NewCalls[1],
                        [op |-> "download", url_path |-> entry.url_path]>>
    /\ Present(entry) /\ call'.download_ok =>
           /\ \E i \in 1..Len(mapping') :
                  /\ mapping'[i].key = entry.jurabk
                  /\ mapping'[i].filename = entry.filename
           /\ call'.parses => result' = ParsedFile(entry.filename)
    /\ ~Present(entry) \/ ~call'.download_ok => result' = Absent

\* C24: get_law(code, auto_download=True) attempts a TOC lookup and
\* download whenever the code is not found locally in the mapping,
\* including when the local mapping is empty or missing; when the download
\* succeeds the law is added to the mapping under its jurabk, the mapping
\* is saved, and the parsed document of the downloaded file is returned;
\* when the TOC lookup or the download fails it returns None.
C24_AutoDownloadWhenMissing ==
    [][MissingLocally =>
           AutoDownload(find_law_in_toc(call'.law_code, call'.toc))]_vars

\* a step that is a call of download_laws_batch
BatchCall == call.op = "none" /\ call'.op = "download_laws_batch"

\* the entries the loop took that a mapping entry with an existing XML
\* file already covers, by their place in the list
AlreadyThere ==
    {idx \in 1..call'.processed :
        ExistsLocally(call'.toc_entries[idx], mapping, files)}

\* the places of the entries download_and_extract_law was called for
Fetched == {NewCalls[k].idx : k \in 1..Len(NewCalls)}

\* C25: in download_laws_batch with skip_existing=True, an entry whose
\* url_path equals (ignoring case) the url_path of a mapping entry whose
\* XML file exists in the target directory is skipped: it is counted once
\* in skipped and download_and_extract_law is not called for it, wherever
\* the entry stands in the list and whatever entries came before it.
C25_ExistingEntrySkipped ==
    [][BatchCall /\ call'.skip_existing =>
           /\ result'.skipped = Cardinality(AlreadyThere)
           /\ AlreadyThere \cap Fetched = {}]_vars

\* the entries counted as skipped, by their place in the list
CountedSkipped == IF call'.skip_existing THEN AlreadyThere ELSE {}

\* C29: in download_laws_batch every entry the loop processes is counted
\* in exactly one of downloaded, failed and skipped: on return downloaded +
\* failed + skipped equals the number of entries processed (the whole list,
\* or the entries before the max_downloads limit stopped the loop), and an
\* entry counted as skipped is never also counted as downloaded or failed.
C29_CountedExactlyOnce ==
    [][BatchCall =>
           /\ result'.downloaded + result'.failed + result'.skipped
                  = call'.processed
           /\ \/ call'.processed = Len(call'.toc_entries)
              \/ /\ call'.max_downloads > 0
                 /\ result'.downloaded >= call'.max_downloads
           /\ result'.skipped = Cardinality(CountedSkipped)
           /\ result'.downloaded + result'.failed = Len(NewCalls)
           /\ CountedSkipped \cap Fetched = {}]_vars


-----------------------------------------------------------------------------
(* failed loads of _get_search, under CacheSpec *)

\* a step that is a call of _get_search
GetSearchCall == call.op = "none" /\ call'.op = "_get_search"

\* the get_law call a step made, when it made one
LoadMade == Len(get_law_log') = Len(get_law_log) + 1

LastLoad == get_law_log'[Len(get_law_log')]

\* get_law has been called for the code, and has returned nothing each time
OnlyFailedSoFar(code) ==
    /\ \E i \in 1..Len(get_law_log) : SameCode(get_law_log[i].law_code, code)
    /\ \A i \in 1..Len(get_law_log) :
           SameCode(get_law_log[i].law_code, code)
               => ~Present(get_law_log[i].dokumente)

\* C28: a failed load is not cached: when get_law returns nothing,
\* _get_search returns None and leaves the cache unchanged, so every later
\* _get_search call for that code calls get_law again, and a later call
\* succeeds and caches the instance as soon as the law becomes loadable.
C28_FailedLoadNotCached ==
    [][GetSearchCall =>
           /\ (LoadMade /\ ~Present(LastLoad.dokumente))
                  => /\ result' = Absent
                     /\ _search_cache' = _search_cache
           /\ OnlyFailedSoFar(call'.law_code)
                  => /\ LoadMade
                     /\ LastLoad.law_code = call'.law_code
                     /\ Present(LastLoad.dokumente)
                            => /\ Present(result')
                               /\ result'.documents = LastLoad.dokumente
                               /\ Upper(call'.law_code) \in DOMAIN _search_cache'
                               /\ _search_cache'[Upper(call'.law_code)]
                                      = result']_vars

\* the load for "BGB" failed, a later call for "bgb" loaded the law and
\* cached the instance of that second load
C28_Witness ==
    /\ call.op = "_get_search"
    /\ call.law_code = <<"b", "g", "b">>
    /\ Len(get_law_log) = 2
    /\ get_law_log[1].law_code = <<"B", "G", "B">>
    /\ ~Present(get_law_log[1].dokumente)
    /\ Present(get_law_log[2].dokumente)
    /\ DOMAIN _search_cache = {<<"B", "G", "B">>}
    /\ result = _search_cache[<<"B", "G", "B">>]
    /\ result.id = 2


-----------------------------------------------------------------------------
(* ConcSpec: calls of _get_search that run at the same time and take      *)
(* their steps in any order                                                *)

\* the callers of _get_search at work at the same time
Callers == {1, 2}

\* a caller outside _get_search
IdleCaller ==
    [pc |-> "idle", law_code |-> <<>>, dokumente |-> Absent, load |-> 0,
     search |-> Absent]

\* the codes the callers ask for
ConcCodes == {<<"B", "G", "B">>, <<"b", "g", "b">>, <<"A", "O">>}

\* what get_law returns to them
ConcFiles ==
    {Dokumente(parse_dokumente(Node("dokumente", <<XmlHeader, XmlParagraph>>))),
     Absent}

ConcInit ==
    /\ callers = [c \in Callers |-> IdleCaller]
    /\ _search_cache = <<>>
    /\ get_law_log = <<>>
    /\ mapping = <<>>
    /\ files = {}
    /\ net_log = <<>>
    /\ call = [op |-> "none"]
    /\ result = NotStarted
    /\ documents = <<>>
    /\ law_code = <<>>
    /\ parts = NoParts
    /\ reference = <<>>
    /\ parsed = NoMatch
    /\ pc = "done"
    /\ root = None

\* what no step of a caller touches
ConcFrame ==
    UNCHANGED <<documents, law_code, call, result, parts, reference, parsed,
                pc, root, mapping, files, net_log>>

\* a caller enters _get_search(law_code)
CallGetSearch(c, code) ==
    /\ callers[c].pc = "idle"
    /\ callers' = [callers EXCEPT ![c] = [IdleCaller EXCEPT !.pc = "check",
                                                            !.law_code = code]]
    /\ UNCHANGED <<_search_cache, get_law_log>>
    /\ ConcFrame

\* if law_upper in _search_cache: return _search_cache[law_upper]
CheckCache(c) ==
    /\ callers[c].pc = "check"
    /\ callers' =
           IF law_upper(callers[c].law_code) \in DOMAIN _search_cache
           THEN [callers EXCEPT
                    ![c].pc = "return",
                    ![c].search = _search_cache[law_upper(callers[c].law_code)]]
           ELSE [callers EXCEPT ![c].pc = "load"]
    /\ UNCHANGED <<_search_cache, get_law_log>>
    /\ ConcFrame

\* dokumente = get_law(law_code, auto_download=True); return None without
LoadLaw(c, dokumente) ==
    /\ callers[c].pc = "load"
    /\ Len(get_law_log) < MaxLoads
    /\ get_law_log' = Append(get_law_log, [law_code |-> callers[c].law_code,
                                            dokumente |-> dokumente])
    /\ callers' = [callers EXCEPT
                      ![c].pc = IF Present(dokumente) THEN "store" ELSE "return",
                      ![c].dokumente = dokumente,
                      ![c].load = Len(get_law_log) + 1]
    /\ UNCHANGED _search_cache
    /\ ConcFrame

\* a wrong variant of StoreSearch: an entry already stored is kept
StoreSearchKeepsFirst(c) ==
    /\ callers[c].pc = "store"
    /\ _search_cache' =
           IF law_upper(callers[c].law_code) \in DOMAIN _search_cache
           THEN _search_cache
           ELSE Store(_search_cache, law_upper(callers[c].law_code),
                      LawSearchOf(callers[c].dokumente, callers[c].law_code,
                                  callers[c].load))
    /\ callers' = [callers EXCEPT
                      ![c].pc = "return",
                      ![c].search =
                          LawSearchOf(callers[c].dokumente,
                                      callers[c].law_code, callers[c].load)]
    /\ UNCHANGED get_law_log
    /\ ConcFrame

\* search = LawSearch(dokumente, law_key); _search_cache[law_upper] = search
StoreSearch(c) ==
    /\ callers[c].pc = "store"
    /\ _search_cache' =
           Store(_search_cache, law_upper(callers[c].law_code),
                 LawSearchOf(callers[c].dokumente, callers[c].law_code,
                             callers[c].load))
    /\ callers' = [callers EXCEPT
                      ![c].pc = "return",
                      ![c].search =
                          LawSearchOf(callers[c].dokumente,
                                      callers[c].law_code, callers[c].load)]
    /\ UNCHANGED get_law_log
    /\ ConcFrame

\* the caller has its answer and leaves
ReturnSearch(c) ==
    /\ callers[c].pc = "return"
    /\ callers' = [callers EXCEPT ![c] = IdleCaller]
    /\ UNCHANGED <<_search_cache, get_law_log>>
    /\ ConcFrame

ConcNext ==
    \E c \in Callers :
        \/ \E code \in ConcCodes : CallGetSearch(c, code)
        \/ CheckCache(c)
        \/ \E dokumente \in ConcFiles : LoadLaw(c, dokumente)
        \/ StoreSearch(c)
        \/ ReturnSearch(c)

ConcSpec == ConcInit /\ [][ConcNext]_vars

\* every key of the cache maps to an instance built from a get_law call
\* that returned a document
NoEmptyEntry ==
    \A k \in DOMAIN _search_cache :
        /\ Present(_search_cache[k])
        /\ _search_cache[k].id \in 1..Len(get_law_log)
        /\ Present(get_law_log[_search_cache[k].id].dokumente)
        /\ _search_cache[k].documents
               = get_law_log[_search_cache[k].id].dokumente

\* two callers that both went past the cache check to get_law for codes
\* with the same cache key, and both have their instance
BothLoaded(c, d) ==
    /\ c # d
    /\ callers[c].pc = "return" /\ callers[d].pc = "return"
    /\ callers[c].load > 0 /\ callers[d].load > 0
    /\ Present(callers[c].search) /\ Present(callers[d].search)
    /\ SameCode(callers[c].law_code, callers[d].law_code)

\* get_law ran once for each of the two, and their instances differ
LoadedTwice(c, d) ==
    /\ callers[c].load # callers[d].load
    /\ get_law_log[callers[c].load].law_code = callers[c].law_code
    /\ get_law_log[callers[d].load].law_code = callers[d].law_code
    /\ callers[c].search # callers[d].search

\* a store puts the caller's instance under the key, whatever was there
LastStoreWins ==
    \A c \in Callers :
        (callers[c].pc = "store" /\ callers'[c].pc = "return")
            => /\ _search_cache'[Upper(callers[c].law_code)]
                      = callers'[c].search
               /\ callers'[c].search.id = callers[c].load

\* C27: _get_search does not serialize its callers: when two calls for the
\* same law code that is not yet cached interleave between the cache check
\* and the cache store, get_law runs twice, the two callers receive
\* different LawSearch instances, and the cache keeps the instance stored
\* last; no interleaving leaves the cache holding a key that maps to no
\* instance.
C27_UnserializedCallers ==
    /\ [](NoEmptyEntry
          /\ \A c, d \in Callers : BothLoaded(c, d) => LoadedTwice(c, d))
    /\ [][LastStoreWins]_vars

\* both callers missed the cache for "BGB" and "bgb", get_law ran twice,
\* first for caller 2 and then for caller 1, both stored their instance,
\* and the cache holds the instance of caller 1 and not that of caller 2
C27_Witness ==
    /\ BothLoaded(1, 2)
    /\ callers[1].law_code = <<"B", "G", "B">>
    /\ callers[2].law_code = <<"b", "g", "b">>
    /\ callers[1].load = 2
    /\ callers[2].load = 1
    /\ callers[1].search # callers[2].search
    /\ Len(get_law_log) = 2
    /\ _search_cache[<<"B", "G", "B">>] = callers[1].search
    /\ _search_cache[<<"B", "G", "B">>] # callers[2].search


-----------------------------------------------------------------------------
(* the law code written in a reference, under Spec *)

\* the law codes a reference may be written with, None for none
ReferenceLaws ==
    {None, <<"K", "S", "t", "G">>, <<"B", "G", "B">>, <<"H", "G", "B">>}

\* the reference of the call, written with another law code
WithLaw(law) == BuildInput([call.pieces EXCEPT !.lead = law])

\* the result is a formatted text
IsText(found) == found \notin {None, ValueError}

\* C30: the result of LawSearch.get_by_reference does not depend on the law
\* code written in the reference: two reference strings that differ only in
\* their law code (or in having none) give the same result on the same
\* LawSearch, the lookup always runs against the LawSearch's own document,
\* and the header always shows the LawSearch's own law code.
C30_ReferenceLawIgnored ==
    call.op = "get_by_reference" =>
        /\ \A law \in ReferenceLaws :
               LET other == parse_law_reference(WithLaw(law))
               IN  /\ other.matched => other.law = law
                   /\ result = Resolve(documents, law_code, other)
                   /\ other.matched
                          => result = Resolve(documents, law_code,
                                              [other EXCEPT !.law = None])
        /\ IsText(result) =>
               /\ StartsWithAt(result, RuleWidth + 2, law_code \o <<" ">>)
               /\ ~Contains(result, <<"K", "S", "t", "G">>)

\* a reference written with the code of another law finds the paragraph
\* of the LawSearch's own document, under the LawSearch's own code
C30_Witness ==
    /\ call.op = "get_by_reference"
    /\ call.pieces.lead = <<"K", "S", "t", "G">>
    /\ call.pieces.para = <<"8">>
    /\ call.pieces.abs = <<"1">>
    /\ law_code = <<"B", "G", "B">>
    /\ IsText(result)
    /\ StartsWithAt(result, RuleWidth + 2, <<"B", "G", "B", " ", "§", " ", "8">>)

====
